---- MODULE Spec2Model ----
(***************************************************************************)
(* Model of the UUBI proof-of-work miner (class RealUBIMiner) and of the   *)
(* constants the server advertises for it.                                 *)
(*                                                                         *)
(* Strings are sequences of one-character strings.  Times are integers in  *)
(* milliseconds, as Date.now() returns them: the code's miningTime is      *)
(* (Date.now() - startTime) / 1000 seconds, the model keeps the numerator, *)
(* and every comparison with a number of seconds is scaled by 1000.        *)
(* SHA-256 is a library function.  For the proof-of-work search its digest *)
(* is drawn from HashSamples (Sha256); where a computation needs the same  *)
(* digest for the same input, it is Digest, a collision-free function.     *)
(***************************************************************************)
EXTENDS Integers, Sequences, FiniteSets, TLC

(***************************************************************************)
(* Bounds of the model.                                                    *)
(***************************************************************************)
\* the nonce ceiling of mineBlock; the code's value is 1000000000
maxNonce == 4
\* the progress cadence of mineBlock; the code's value is 100000
progressInterval == 2
\* mineBlock attempts started in one behaviour (direct calls and loop iterations)
MaxAttempts == 2
\* longest transaction list handed to calculateMerkleRoot
MaxTxs == 4
\* last day the chain's clock reaches; it starts at day 1
MaxDay == 2
\* transactions sent to UUBIToken by the users and the owner
MaxChainTxs == 3
MaxInFlight == 2
\* mining requests that write to the server's ledger in one behaviour
MaxLedgerWrites == 2
\* blocks of a mining client whose reports are followed one by one; the
\* blocks found after them are mined and handed over all the same
MaxFollowed == 2
\* reports of the blocks after those that are counted while they are in
\* flight: MaxLater stands for MaxLater or more
MaxLater == 2

(***************************************************************************)
(* Program constants.                                                      *)
(***************************************************************************)
InitialDifficulty == 4
BlockReward == 50
HeaderVersion == 1
HashLen == 64
targetTime == 30
MaxDifficulty == 8
MinDifficulty == 1
\* UUBIToken.DISTRIBUTION_INTERVAL (1 days), in seconds
DISTRIBUTION_INTERVAL == 86400

Null == [null |-> TRUE]

\* a JavaScript number that is a non-negative integer or Infinity
Finite(n) == [ finite |-> TRUE, value |-> n ]
Infinity == [ finite |-> FALSE, value |-> 0 ]

\* the outcome of a call that ended with an exception thrown by callback `by`
Thrown(by) == [ thrown |-> by ]

\* the awaited promise was fulfilled with a result object
IsResult(r) == "success" \in DOMAIN r

\* the awaited promise was rejected
WasThrown(r) == "thrown" \in DOMAIN r

Min(a, b) == IF a < b THEN a ELSE b
Max(a, b) == IF a > b THEN a ELSE b

(***************************************************************************)
(* Strings.                                                                *)
(***************************************************************************)
Digits == <<"0", "1", "2", "3", "4", "5", "6", "7", "8", "9">>

\* Number.prototype.toString for the non-negative integers join() meets
RECURSIVE NumToStr(_)
NumToStr(n) ==
    IF n < 10 THEN <<Digits[n + 1]>>
    ELSE NumToStr(n \div 10) \o <<Digits[(n % 10) + 1]>>

\* String.prototype.repeat
RECURSIVE Repeat(_, _)
Repeat(c, n) == IF n <= 0 THEN <<>> ELSE <<c>> \o Repeat(c, n - 1)

\* String.prototype.startsWith
StartsWith(s, t) == Len(t) <= Len(s) /\ SubSeq(s, 1, Len(t)) = t

\* Array.prototype.join
RECURSIVE Join(_, _)
Join(parts, sep) ==
    IF Len(parts) = 0 THEN <<>>
    ELSE IF Len(parts) = 1 THEN parts[1]
    ELSE parts[1] \o sep \o Join(Tail(parts), sep)

(***************************************************************************)
(* Inputs.                                                                 *)
(***************************************************************************)
\* miner identifiers the callers pass
MinerAddresses == { <<"m", "1">> }

\* values Date.now() returns when a header is created (ms since epoch)
Timestamps == { 1000 }

\* values of Date.now() - startTime (ms) around the retargeting thresholds
Elapsed == { 0, 23999, 24000, 45000, 45001 }

\* numbers of leading '0' characters of the sampled digests
ZeroCounts == { 0, 3, 4, 8, 12 }

\* a 64-character hex digest with exactly z leading zeros: z zeros, one 'f',
\* zeros again, so that only the prefix decides
HexSample(z) == [ i \in 1 .. HashLen |-> IF i = z + 1 THEN "f" ELSE "0" ]

HashSamples == { HexSample(z) : z \in ZeroCounts }

\* crypto.createHash('sha256').update(s).digest('hex'): the digests the
\* model lets the library return for the input s
Sha256(s) == HashSamples

\* sha256('empty') in hex
EmptyDigest ==
    << "2","e","1","c","f","a","8","2","b","0","3","5","c","2","6","c",
       "b","b","b","d","a","e","6","3","2","c","e","a","0","7","0","5",
       "1","4","e","b","8","b","7","7","3","f","6","1","6","a","a","e",
       "a","f","6","6","8","e","2","f","0","b","e","8","f","1","0","d" >>

\* the string 'empty'
EmptyText == << "e", "m", "p", "t", "y" >>

\* crypto.createHash('sha256').update(s).digest('hex') where the digest has
\* to be the same value at every call: the known digest of 'empty', and for
\* any other input a digest that names its input, so that different inputs
\* have different digests
Digest(s) ==
    IF s = EmptyText THEN EmptyDigest
    ELSE << "s", "h", "a", "(" >> \o s \o << ")" >>

\* transaction records handed to calculateMerkleRoot
Txs == { [ id |-> 1 ], [ id |-> 2 ], [ id |-> 3 ] }

\* ordered transaction lists of at most n records
RECURSIVE TxLists(_)
TxLists(n) ==
    IF n = 0 THEN { <<>> }
    ELSE TxLists(n - 1) \cup
         { Append(l, tx) : l \in { k \in TxLists(n - 1) : Len(k) = n - 1 },
                           tx \in Txs }

\* JSON.stringify of a record { id: n }
JsonStringify(tx) ==
    << "{", "\"", "i", "d", "\"", ":" >> \o NumToStr(tx.id) \o << "}" >>

(***************************************************************************)
(* RealUBIMiner: pure parts.                                               *)
(***************************************************************************)
\* transactions.map(tx => sha256(JSON.stringify(tx)))
LeafHashes(txs) ==
    [ i \in 1 .. Len(txs) |-> Digest(JsonStringify(txs[i])) ]

RECURSIVE NextLevel_BareLast(_, _)
NextLevel_BareLast(hashes, i) ==
    IF i > Len(hashes) THEN <<>>
    ELSE IF i + 1 > Len(hashes) THEN << hashes[i] >>
    ELSE << Digest(hashes[i] \o hashes[i + 1]) >>
         \o NextLevel_BareLast(hashes, i + 2)

\* for (let i = ...; i < hashes.length; i += 2): what the passes from index i
\* on push to nextLevel (i counts from 1 here); hashes[i + 1] || left is left
\* when i + 1 is past the end
RECURSIVE NextLevel(_, _)
NextLevel(hashes, i) ==
    IF i > Len(hashes) THEN <<>>
    ELSE LET left == hashes[i]
             right == IF i + 1 <= Len(hashes) THEN hashes[i + 1] ELSE left
         IN << Digest(left \o right) >> \o NextLevel(hashes, i + 2)

\* while (hashes.length > 1) { ... hashes = nextLevel }; return hashes[0]
RECURSIVE ReduceLevels(_)
ReduceLevels(hashes) ==
    IF Len(hashes) > 1 THEN ReduceLevels(NextLevel(hashes, 1))
    ELSE hashes[1]

calculateMerkleRoot_EmptyString(txs) ==
    IF Len(txs) = 0 THEN Digest(<<>>)
    ELSE ReduceLevels(LeafHashes(txs))

calculateMerkleRoot(txs) ==
    IF Len(txs) = 0 THEN Digest(EmptyText)
    ELSE ReduceLevels(LeafHashes(txs))

\* constructor: Math.floor(this.blockReward * 2 / 3)
UbiShare(reward) == (reward * 2) \div 3

MinerShare_Rounded(reward) == (2 * reward + 3) \div 6

\* constructor: Math.floor(this.blockReward / 3)
MinerShare(reward) == reward \div 3

\* calculateMerkleRoot([]), the only call the miner makes
calculateMerkleRootEmpty == calculateMerkleRoot(<<>>)

generateBlockHeader_FixedDifficulty(d, minerAddress, now) ==
    [ version      |-> HeaderVersion,
      previousHash |-> Repeat("0", 64),
      merkleRoot   |-> calculateMerkleRootEmpty,
      timestamp    |-> now,
      difficulty   |-> InitialDifficulty,
      nonce        |-> 0,
      miner        |-> minerAddress ]

\* generateBlockHeader(null, minerAddress): previousHash and timestamp are
\* falsy, so the genesis hash and Date.now() (now) are taken
generateBlockHeader(d, minerAddress, now) ==
    [ version      |-> HeaderVersion,
      previousHash |-> Repeat("0", 64),
      merkleRoot   |-> calculateMerkleRootEmpty,
      timestamp    |-> now,
      difficulty   |-> d,
      nonce        |-> 0,
      miner        |-> minerAddress ]

\* generateBlockHeader(previousHash, minerAddress, timestamp) with arguments
\* that may be given: an argument is << >> when it is null or left out and
\* << v >> when it is v; '' and 0 are falsy like null, so previousHash || ...
\* and timestamp || Date.now() replace them
generateBlockHeaderWith(previousHash, minerAddress, timestamp, d, now) ==
    [ version      |-> HeaderVersion,
      previousHash |-> IF previousHash = << >> \/ previousHash[1] = << >>
                       THEN Repeat("0", 64)
                       ELSE previousHash[1],
      merkleRoot   |-> calculateMerkleRoot(<< >>),
      timestamp    |-> IF timestamp = << >> \/ timestamp[1] = 0
                       THEN now
                       ELSE timestamp[1],
      difficulty   |-> d,
      nonce        |-> 0,
      miner        |-> minerAddress ]

serializeBlockHeader(header) ==
    Join(<< NumToStr(header.version),
            header.previousHash,
            header.merkleRoot,
            NumToStr(header.timestamp),
            NumToStr(header.difficulty),
            NumToStr(header.nonce),
            header.miner >>, <<"|">>)

isValidHash_OneShort(hash, d) == StartsWith(hash, Repeat("0", d - 1))

isValidHash(hash, d) == StartsWith(hash, Repeat("0", d))

\* 2^n
RECURSIVE Pow2(_)
Pow2(n) == IF n = 0 THEN 1 ELSE 2 * Pow2(n - 1)

\* floor(log2(num / den)) for positive num and den
RECURSIVE FloorLog2(_, _)
FloorLog2(num, den) ==
    IF num >= 2 * den THEN 1 + FloorLog2(num, 2 * den)
    ELSE IF num < den THEN FloorLog2(2 * num, den) - 1
    ELSE 0

\* (a * 2^n) mod 1000
RECURSIVE Times2Mod1000(_, _)
Times2Mod1000(a, n) ==
    IF n = 0 THEN a % 1000 ELSE Times2Mod1000((2 * a) % 1000, n - 1)

\* Math.floor(q') where q' is the double the division hashCount / seconds
\* gives when the exact quotient is the integer q, seconds being the double
\* nearest to ms / 1000.  With 2^E <= ms/1000 < 2^(E+1), `rest` is what
\* ms/1000 leaves beyond its 53 significant bits, in 1/1000 of the last bit:
\* up to half a bit the divisor is exact or rounded down and the quotient
\* is not below q; otherwise the divisor is too large by `excess`/1000 of a
\* bit and the quotient falls below q by q * excess / (1000 * mantissa),
\* which rounds back to q only if that is at most half of the spacing of
\* the doubles below q.
FloorOfDoubleQuotient(q, ms) ==
    LET E == FloorLog2(ms, 1000)
        rest == Times2Mod1000(ms, 52 - E)
        excess == 1000 - rest
        k == FloorLog2(q, 1)
        below == IF q = Pow2(k) THEN 4 * excess ELSE 2 * q * excess
        room == IF q = Pow2(k) THEN ms ELSE ms * Pow2(k)
        keeps == IF E >= 0 THEN below * Pow2(E) <= room
                 ELSE below <= room * Pow2(0 - E)
    IN IF rest <= 500 \/ keeps THEN q ELSE q - 1

\* Math.floor(hashCount / ((Date.now() - startTime) / 1000)) in double
\* arithmetic; hashCount >= 1.  A quotient that is not an integer is further
\* from the integers than the rounding errors reach.
Hashrate(count, ms) ==
    IF ms = 0 THEN Infinity
    ELSE IF (count * 1000) % ms # 0 THEN Finite((count * 1000) \div ms)
    ELSE Finite(FloorOfDoubleQuotient((count * 1000) \div ms, ms))

WhileCond_OneMore(n) == n <= maxNonce

\* while (nonce < maxNonce)
WhileCond(n) == n < maxNonce

adjustDifficulty_NoClamp(d, ms) ==
    IF ms < targetTime * 800 THEN d + 1
    ELSE IF ms > targetTime * 1500 THEN d - 1
    ELSE d

adjustDifficulty_Inclusive(d, ms) ==
    IF ms <= targetTime * 800 THEN Min(d + 1, MaxDifficulty)
    ELSE IF ms >= targetTime * 1500 THEN Max(d - 1, MinDifficulty)
    ELSE d

\* adjustDifficulty(miningTime) as the new value of this.difficulty;
\* miningTime < targetTime * 0.8 is ms < targetTime * 800
adjustDifficulty(d, ms) ==
    IF ms < targetTime * 800 THEN Min(d + 1, MaxDifficulty)
    ELSE IF ms > targetTime * 1500 THEN Max(d - 1, MinDifficulty)
    ELSE d

\* the object mineBlock returns when a hash qualifies
FoundResult(header, hash, ms, count, d, reward, minerPart, ubiPart) ==
    [ success |-> TRUE,
      block   |-> [ header     |-> header,
                    hash       |-> hash,
                    miningTime |-> ms,
                    hashes     |-> count,
                    hashrate   |-> Hashrate(count, ms),
                    difficulty |-> d ],
      rewards |-> [ total |-> reward, miner |-> minerPart, ubi |-> ubiPart ] ]

ExhaustedResult_WithRewards(count, ms) ==
    [ success |-> FALSE,
      error   |-> "Mining timeout - difficulty too high",
      hashes  |-> count,
      time    |-> ms,
      rewards |-> [ total |-> 0, miner |-> 0, ubi |-> 0 ] ]

\* the object mineBlock returns when the nonce range is used up
ExhaustedResult(count, ms) ==
    [ success |-> FALSE,
      error   |-> "Mining timeout - difficulty too high",
      hashes  |-> count,
      time    |-> ms ]

\* "Block Rewards" of the mining documentation
DocumentedRewards == [ total |-> 50, minerShare |-> 17, ubiShare |-> 33 ]

\* GET /api/mining/status
MiningStatus ==
    [ status |-> "online", difficulty |-> 4, blockReward |-> 50,
      ubiShare |-> 33, minerShare |-> 17 ]


WithNonce_Restamped(header, n) ==
    [ header EXCEPT !.nonce = n, !.timestamp = @ + 1 ]

\* blockHeader.nonce = nonce
WithNonce(header, n) == [ header EXCEPT !.nonce = n ]

CountHash_Skip(stats) == stats

\* this.miningStats.totalHashes++
CountHash(stats) == [ stats EXCEPT !.totalHashes = @ + 1 ]

\* the hash count a result of mineBlock reports
ResultHashes(r) == IF r.success THEN r.block.hashes ELSE r.hashes

ProgressDue_EveryOther(count) == count % (2 * progressInterval) = 0

\* if (hashCount % 100000 === 0), read after hashCount++
ProgressDue(count) == count % progressInterval = 0

\* the object mineBlock hands to onProgress
ProgressArg(count, rate, t, n, hash) ==
    [ hashes |-> count, hashrate |-> rate, elapsed |-> t, nonce |-> n,
      currentHash |-> hash ]

NextBlockNumber_Stuck(n) == n

\* blockNumber++
NextBlockNumber(n) == n + 1

AdjustArg_Hashes(r) == r.block.hashes

\* the argument startMining passes to adjustDifficulty
AdjustArg(r) == r.block.miningTime

\* the object startMining hands to onBlockFound: { blockNumber, ...result }
BlockFoundArg(n, r) ==
    [ blockNumber |-> n, success |-> r.success, block |-> r.block,
      rewards |-> r.rewards ]

(***************************************************************************)
(* State.                                                                  *)
(***************************************************************************)
VARIABLES
    difficulty,      \* this.difficulty
    blockReward,     \* this.blockReward
    ubiShare,        \* this.ubiShare
    minerShare,      \* this.minerShare
    miningStats,     \* this.miningStats
    pc,              \* "idle", "loop" (startMining between attempts),
                     \* "searching" (inside mineBlock), "returned"
    inLoop,          \* a startMining call is running
    minerAddress,    \* arguments of the running call (<< >> when none runs)
    onBlockFound,    \* TRUE when the callback was given; the callbacks are
    onProgress,      \* those of the callers in the repository (MiningClient's
                     \* async onBlockFound, an onProgress that prints), which
                     \* return to the miner without throwing
    blockNumber,     \* startMining's local
    blockHeader,     \* mineBlock's locals
    nonce,
    hashCount,
    elapsed,         \* Date.now() - startTime at the last reading (ms)
    result,          \* what the last finished mineBlock returned, until the
                     \* next call
    progress,        \* argument of the attempt's last onProgress invocation
    notifications,   \* onProgress invocations of the attempt
    foundLog,        \* blockNumber of every onBlockFound invocation of the
                     \* running loop, in order
    adjustArg,       \* << t >> right after a call adjustDifficulty(t), else << >>
    successes,       \* successful attempts of the running loop
    runAdjusts,      \* adjustDifficulty calls made by the running loop
    attempts,        \* mineBlock attempts started so far
    sumHashes,       \* sum of the hash counts of the attempts that ended
    foundTotal,      \* number of successful results returned so far
    cmpDifficulty,   \* this.difficulty of the compared mineBlock runs
    cmpHeader,       \* the header all compared runs start from
    cmpRuns,         \* the compared runs of mineBlock, one per way of
                     \* passing onProgress; << >> when none is compared
    other,           \* << c >> when a second startMining call is suspended
                     \* at its await, c holding its arguments and locals;
                     \* else << >>
    isMining,        \* MiningClient's this.isMining
    transactions,    \* argument of the last calculateMerkleRoot call
    merkleRoot,      \* what that call returned; << >> before the first call
    builtHeader,     \* what the last generateBlockHeader call returned
    serArgs,         \* the arguments of two independent runs of
                     \* generateBlockHeader, nonce assignment and
                     \* serializeBlockHeader, and the clock and difficulty
                     \* each run meets
    serOut,          \* per run << >>, or << r >> with the header and the
                     \* string the run produced
    nodeEnv,         \* process.env.NODE_ENV of the server
    contract,        \* ubiBlockchain.contract: "none" (null) or "connected"
    identities,      \* UUBIToken.identities, per address
    lastUUBIClaim,   \* UUBIToken.lastUUBIClaim, per address, in seconds
    totalUUBIClaimed,\* UUBIToken.totalUUBIClaimed, per address, in units
                     \* of UUUBI_AMOUNT
    hasClaimedBackdatedUUBI, \* UUBIToken.hasClaimedBackdatedUUBI, per address
    balanceOf,       \* the ERC20 balances, per address, in units of
                     \* UUUBI_AMOUNT
    paused,          \* Pausable's flag of the contract
    chainTime,       \* block.timestamp and the server's clock, in seconds
                     \* since the epoch
    chainTxs,        \* number of transactions the users and the owner have
                     \* sent
    registered,      \* the addresses registerIdentity ever succeeded for
    calls,           \* the ubiBlockchain methods the last request called
    response,        \* what the last request was answered with
    pending,         \* the requests whose handlers are at an await of the
                     \* contract, each with what it has read so far
    extractedBirthdays, \* the server's extractedBirthdays map: << >>, or
                     \* << d >> with the birthday stored under the address
                     \* of the server's wallet
    userBalances,    \* miningData.userBalances; 0 stands for no entry too
    ubiPool,         \* miningData.ubiPool
    totalMined,      \* miningData.totalMined
    miningHistory,   \* miningData.miningHistory: the number of entries
                     \* loaded from mining.json that it still holds, and
                     \* after them the entries pushed since
    activeMiners,    \* miningData.activeMiners: per user << >>, or << s >>
                     \* with the user's session s
    ledgerWrites,    \* number of requests that wrote to miningData
    search,          \* one mineBlock search over a given table of digests:
                     \* the difficulty, the digest of the header at each
                     \* nonce, the loop's locals and the nonces hashed so far
    runtime          \* the Node.js process of the mining client: where its
                     \* JavaScript stands, the loop's locals, and the events
                     \* waiting for the event loop

minerVars == << difficulty, blockReward, ubiShare, minerShare, miningStats >>
callVars == << pc, inLoop, minerAddress, onBlockFound, onProgress, blockNumber >>
attemptVars == << blockHeader, nonce, hashCount, elapsed >>
obsVars == << result, progress, notifications, foundLog, adjustArg, successes,
              runAdjusts, attempts >>
tallyVars == << sumHashes, foundTotal >>
cmpVars == << cmpDifficulty, cmpHeader, cmpRuns >>
\* the variables of the single miner that Next drives
mainVars == << minerVars, callVars, attemptVars, obsVars, tallyVars >>
\* the variables of the other specifications, which Next leaves alone
merkleVars == << transactions, merkleRoot, builtHeader >>
serVars == << serArgs, serOut >>
\* the variables of the specifications further down
tokenVars == << lastUUBIClaim, totalUUBIClaimed, hasClaimedBackdatedUUBI,
                balanceOf >>
chainVars == << nodeEnv, contract, identities, tokenVars, paused, chainTime,
                chainTxs, registered >>
apiVars == << calls, response, pending, extractedBirthdays >>
ledgerVars == << userBalances, ubiPool, totalMined, miningHistory >>
sessionVars == << activeMiners, ledgerWrites >>
webVars == << chainVars, apiVars, ledgerVars, sessionVars >>
extVars == << serVars, webVars, search, runtime >>
auxVars == << cmpVars, other, isMining, merkleVars, extVars >>
vars == << mainVars, auxVars >>

\* new RealUBIMiner(), no call made yet
MinerInit ==
    /\ difficulty = InitialDifficulty
    /\ blockReward = BlockReward
    /\ ubiShare = UbiShare(BlockReward)
    /\ minerShare = MinerShare(BlockReward)
    /\ \E t \in Timestamps :
         miningStats = [ totalHashes |-> 0, totalBlocks |-> 0,
                         startTime |-> t, hashrate |-> Finite(0) ]
    /\ pc = "idle"
    /\ inLoop = FALSE
    /\ minerAddress = <<>>
    /\ onBlockFound = FALSE
    /\ onProgress = FALSE
    /\ blockNumber = 0
    /\ blockHeader = Null
    /\ nonce = 0
    /\ hashCount = 0
    /\ elapsed = 0
    /\ result = Null
    /\ progress = Null
    /\ notifications = 0
    /\ foundLog = <<>>
    /\ adjustArg = <<>>
    /\ successes = 0
    /\ runAdjusts = 0
    /\ attempts = 0
    /\ sumHashes = 0
    /\ foundTotal = 0

\* no runs are being compared
CmpIdle ==
    /\ cmpDifficulty = InitialDifficulty
    /\ cmpHeader = Null
    /\ cmpRuns = <<>>

\* no call of calculateMerkleRoot or generateBlockHeader was made from
\* outside mineBlock
MerkleIdle ==
    /\ transactions = <<>>
    /\ merkleRoot = <<>>
    /\ builtHeader = Null

\* no pair of serialization runs is set up
SerIdle ==
    /\ serArgs = << >>
    /\ serOut = << >>

\* the addresses of the chain: the server's own wallet and a user's
ServerWallet == "srv"
Wallets == { ServerWallet, "w1" }

\* mapping(address => IdentityRecord): every address reads as the zero record
\* until registerIdentity writes it
ZeroIdentity == [ isVerified |-> FALSE, isActive |-> FALSE ]

\* no request was answered yet
NoResponse ==
    [ route |-> "none", request |-> Null, status |-> 0, success |-> FALSE,
      error |-> << >>, data |-> Null ]

\* 86400 in the server's conversions of seconds to days, `1 days` in the
\* contract's
SecondsPerDay == 86400

\* the day UUBIToken is deployed, in days since the epoch; the clock is
\* followed from 00:00 of that day in steps of half a day
FirstDay == 20000
FirstTime == FirstDay * SecondsPerDay
LastTime == (FirstDay + MaxDay - 1) * SecondsPerDay
ClockStep == SecondsPerDay \div 2

\* a freshly deployed UUBIToken
ChainFresh ==
    /\ identities = [ w \in Wallets |-> ZeroIdentity ]
    /\ lastUUBIClaim = [ w \in Wallets |-> 0 ]
    /\ totalUUBIClaimed = [ w \in Wallets |-> 0 ]
    /\ hasClaimedBackdatedUUBI = [ w \in Wallets |-> FALSE ]
    /\ balanceOf = [ w \in Wallets |-> 0 ]
    /\ paused = FALSE
    /\ chainTime = FirstTime
    /\ chainTxs = 0
    /\ registered = { }

\* a server that has answered no request and stored no birthday
ApiIdle ==
    /\ calls = << >>
    /\ response = NoResponse
    /\ pending = { }
    /\ extractedBirthdays = << >>

\* the users of the server's mining endpoints
Users == { "u1", "u2" }

\* let miningData = {...} when no mining.json was saved
LedgerInit ==
    /\ userBalances = [ u \in Users |-> 0 ]
    /\ ubiPool = 0
    /\ totalMined = 0
    /\ miningHistory = [ loaded |-> 0, recent |-> << >> ]
    /\ activeMiners = [ u \in Users |-> << >> ]
    /\ ledgerWrites = 0

WebIdle ==
    /\ nodeEnv = "development"
    /\ contract = "none"
    /\ ChainFresh
    /\ ApiIdle
    /\ LedgerInit

\* the variables of the specifications further down are not in use
SearchIdle == search = Null

RuntimeIdle == runtime = Null

ExtIdle == SerIdle /\ WebIdle /\ SearchIdle /\ RuntimeIdle

Init ==
    /\ MinerInit
    /\ CmpIdle
    /\ other = <<>>
    /\ isMining = FALSE
    /\ MerkleIdle
    /\ ExtIdle

(***************************************************************************)
(* mineBlock.                                                              *)
(***************************************************************************)
\* mineBlock up to the loop: startTime, the header, nonce = 0, hashCount = 0
EnterMineBlock(addr, now) ==
    /\ blockHeader' = generateBlockHeader(difficulty, addr, now)
    /\ nonce' = 0
    /\ hashCount' = 0
    /\ elapsed' = 0
    /\ result' = Null
    /\ progress' = Null
    /\ notifications' = 0
    /\ adjustArg' = <<>>
    /\ attempts' = attempts + 1
    /\ pc' = "searching"

\* mineBlock's return: the promise resolves to r
LeaveMineBlock(r) ==
    /\ result' = r
    /\ sumHashes' = sumHashes + ResultHashes(r)
    /\ foundTotal' = IF r.success THEN foundTotal + 1 ELSE foundTotal
    /\ blockHeader' = Null
    /\ nonce' = 0
    /\ hashCount' = 0
    /\ elapsed' = 0
    /\ pc' = IF inLoop THEN "returned" ELSE "idle"
    /\ IF inLoop
       THEN UNCHANGED << minerAddress, onProgress >>
       ELSE minerAddress' = <<>> /\ onProgress' = FALSE

\* a direct call of mineBlock(minerAddress, onProgress)
CallMineBlock ==
    /\ UNCHANGED tallyVars
    /\ pc = "idle"
    /\ attempts < MaxAttempts
    /\ \E addr \in MinerAddresses, now \in Timestamps, cb \in BOOLEAN :
         /\ EnterMineBlock(addr, now)
         /\ minerAddress' = addr
         /\ onProgress' = cb
    /\ UNCHANGED << minerVars, inLoop, onBlockFound, blockNumber, foundLog,
                    successes, runAdjusts >>
    /\ UNCHANGED auxVars

\* one iteration of while (nonce < maxNonce)
MineIteration ==
    /\ pc = "searching"
    /\ WhileCond(nonce)
    /\ LET header == WithNonce(blockHeader, nonce)
           serialized == serializeBlockHeader(header)
           count == hashCount + 1
           report == ProgressDue(count)
       IN \E hash \in Sha256(serialized), t1 \in Elapsed, t2 \in Elapsed :
            LET valid == isValidHash(hash, difficulty) IN
            /\ elapsed <= t1 /\ t1 <= t2
            /\ ~report => t1 = elapsed
            /\ ~valid => t2 = t1
            /\ miningStats' =
                 [ CountHash(miningStats) EXCEPT
                     !.totalBlocks = IF valid THEN @ + 1 ELSE @,
                     !.hashrate = IF valid THEN Hashrate(count, t2)
                                  ELSE IF report THEN Hashrate(count, t1)
                                  ELSE @ ]
            /\ progress' =
                 IF report /\ onProgress
                 THEN ProgressArg(count, Hashrate(count, t1), t1, nonce, hash)
                 ELSE progress
            /\ notifications' =
                 IF report /\ onProgress THEN notifications + 1
                 ELSE notifications
            /\ IF valid
               THEN /\ LeaveMineBlock(FoundResult(header, hash, t2, count,
                                        difficulty, blockReward, minerShare,
                                        ubiShare))
                    /\ successes' = IF inLoop THEN successes + 1 ELSE successes
               ELSE /\ blockHeader' = header
                    /\ nonce' = nonce + 1
                    /\ hashCount' = count
                    /\ elapsed' = t1
                    /\ UNCHANGED << pc, result, successes, minerAddress,
                                    onProgress, tallyVars >>
    /\ UNCHANGED << difficulty, blockReward, ubiShare, minerShare, inLoop,
                    onBlockFound, blockNumber, foundLog, adjustArg,
                    runAdjusts, attempts >>
    /\ UNCHANGED auxVars

\* the loop ends without a qualifying hash
MineExhausted ==
    /\ pc = "searching"
    /\ ~WhileCond(nonce)
    /\ \E t \in Elapsed :
         /\ elapsed <= t
         /\ LeaveMineBlock(ExhaustedResult(hashCount, t))
    /\ UNCHANGED << minerVars, inLoop, onBlockFound, blockNumber, progress, notifications,
                    foundLog, adjustArg, successes, runAdjusts,
                    attempts >>
    /\ UNCHANGED auxVars

(***************************************************************************)
(* startMining.                                                            *)
(***************************************************************************)
\* startMining(minerAddress, onBlockFound, onProgress) up to the loop
CallStartMining ==
    /\ UNCHANGED tallyVars
    /\ pc = "idle"
    /\ attempts < MaxAttempts
    /\ \E addr \in MinerAddresses, found \in BOOLEAN, prog \in BOOLEAN :
         /\ minerAddress' = addr
         /\ onBlockFound' = found
         /\ onProgress' = prog
    /\ inLoop' = TRUE
    /\ blockNumber' = 1
    /\ pc' = "loop"
    /\ result' = Null
    /\ progress' = Null
    /\ notifications' = 0
    /\ foundLog' = <<>>
    /\ adjustArg' = <<>>
    /\ successes' = 0
    /\ runAdjusts' = 0
    /\ UNCHANGED << minerVars, attemptVars, attempts >>
    /\ UNCHANGED auxVars

\* the loop calls this.mineBlock(minerAddress, onProgress)
LoopMineBlock ==
    /\ UNCHANGED tallyVars
    /\ pc = "loop"
    /\ attempts < MaxAttempts
    /\ \E now \in Timestamps : EnterMineBlock(minerAddress, now)
    /\ UNCHANGED << minerVars, inLoop, minerAddress, onBlockFound, onProgress,
                    blockNumber, foundLog, successes, runAdjusts >>
    /\ UNCHANGED auxVars

\* result.success: report the block, count it, retarget
HandleSuccess ==
    /\ UNCHANGED tallyVars
    /\ pc = "returned"
    /\ IsResult(result)
    /\ result.success
    /\ foundLog' = IF onBlockFound
                   THEN Append(foundLog, BlockFoundArg(blockNumber, result).blockNumber)
                   ELSE foundLog
    /\ blockNumber' = NextBlockNumber(blockNumber)
    /\ difficulty' = adjustDifficulty(difficulty, AdjustArg(result))
    /\ adjustArg' = << AdjustArg(result) >>
    /\ runAdjusts' = runAdjusts + 1
    /\ pc' = "loop"
    /\ result' = Null
    /\ progress' = Null
    /\ notifications' = 0
    /\ UNCHANGED << blockReward, ubiShare, minerShare, miningStats, inLoop,
                    minerAddress, onBlockFound, onProgress, attemptVars,
                    successes, attempts >>
    /\ UNCHANGED auxVars

HandleFailure_Retry ==
    /\ UNCHANGED tallyVars
    /\ pc = "returned"
    /\ IsResult(result)
    /\ ~result.success
    /\ pc' = "loop"
    /\ result' = Null
    /\ progress' = Null
    /\ notifications' = 0
    /\ UNCHANGED << minerVars, inLoop, minerAddress, onBlockFound, onProgress,
                    blockNumber, attemptVars, foundLog, adjustArg, successes,
                    runAdjusts, attempts >>
    /\ UNCHANGED auxVars

\* !result.success: break, startMining returns
HandleFailure ==
    /\ UNCHANGED tallyVars
    /\ pc = "returned"
    /\ IsResult(result)
    /\ ~result.success
    /\ pc' = "idle"
    /\ inLoop' = FALSE
    /\ minerAddress' = <<>>
    /\ onBlockFound' = FALSE
    /\ onProgress' = FALSE
    /\ blockNumber' = 0
    /\ foundLog' = <<>>
    /\ successes' = 0
    /\ runAdjusts' = 0
    /\ UNCHANGED << minerVars, attemptVars, result, progress, notifications, adjustArg,
                    attempts >>
    /\ UNCHANGED auxVars

(***************************************************************************)
(* Callbacks that throw.  mineBlock has no try block, so an exception of   *)
(* onProgress rejects its promise; startMining's try block encloses the    *)
(* await of mineBlock and the call of onBlockFound, and its catch breaks   *)
(* out of the loop.                                                        *)
(***************************************************************************)
\* the call that is running ends: its arguments and locals are gone
EndCall ==
    /\ pc' = "idle"
    /\ inLoop' = FALSE
    /\ minerAddress' = <<>>
    /\ onBlockFound' = FALSE
    /\ onProgress' = FALSE
    /\ blockNumber' = 0
    /\ foundLog' = <<>>
    /\ successes' = 0
    /\ runAdjusts' = 0

\* an iteration whose progress report is due and whose onProgress throws:
\* the hash is counted, the callback is not returned from, mineBlock's
\* promise is rejected.  Inside startMining the loop is still suspended at
\* its await: the catch runs when the rejection is delivered.
ProgressThrows ==
    /\ pc = "searching"
    /\ WhileCond(nonce)
    /\ onProgress
    /\ ProgressDue(hashCount + 1)
    /\ LET header == WithNonce(blockHeader, nonce)
           count == hashCount + 1
       IN \E hash \in Sha256(serializeBlockHeader(header)), t1 \in Elapsed :
            /\ elapsed <= t1
            /\ miningStats' = [ CountHash(miningStats) EXCEPT
                                  !.hashrate = Hashrate(count, t1) ]
            /\ progress' = ProgressArg(count, Hashrate(count, t1), t1, nonce,
                                       hash)
    /\ notifications' = notifications + 1
    /\ sumHashes' = sumHashes + hashCount + 1
    /\ foundTotal' = foundTotal
    /\ result' = Thrown("onProgress")
    /\ blockHeader' = Null
    /\ nonce' = 0
    /\ hashCount' = 0
    /\ elapsed' = 0
    /\ IF inLoop
       THEN /\ pc' = "returned"
            /\ UNCHANGED << inLoop, minerAddress, onBlockFound, onProgress,
                            blockNumber, foundLog, successes, runAdjusts >>
       ELSE EndCall
    /\ UNCHANGED << difficulty, blockReward, ubiShare, minerShare, adjustArg,
                    attempts >>
    /\ UNCHANGED auxVars

\* the await of mineBlock throws the rejection: catch, log, break
CatchRejection ==
    /\ UNCHANGED tallyVars
    /\ pc = "returned"
    /\ WasThrown(result)
    /\ EndCall
    /\ UNCHANGED << minerVars, attemptVars, result, progress, notifications,
                    adjustArg, attempts >>
    /\ UNCHANGED auxVars

\* result.success and onBlockFound throws: catch, break
BlockFoundThrows ==
    /\ UNCHANGED tallyVars
    /\ pc = "returned"
    /\ IsResult(result)
    /\ result.success
    /\ onBlockFound
    /\ result' = Thrown("onBlockFound")
    /\ EndCall
    /\ UNCHANGED << minerVars, attemptVars, progress, notifications, adjustArg, attempts >>
    /\ UNCHANGED auxVars

(***************************************************************************)
(* Other calls.                                                            *)
(***************************************************************************)
\* a direct call of adjustDifficulty(miningTime)
CallAdjustDifficulty ==
    /\ UNCHANGED tallyVars
    /\ pc = "idle"
    /\ \E t \in Elapsed :
         /\ difficulty' = adjustDifficulty(difficulty, t)
         /\ adjustArg' = << t >>
    /\ result' = Null
    /\ progress' = Null
    /\ notifications' = 0
    /\ UNCHANGED << blockReward, ubiShare, minerShare, miningStats, callVars,
                    attemptVars, foundLog, successes, runAdjusts, attempts >>
    /\ UNCHANGED auxVars

\* values assigned to miner.difficulty from outside the class
InjectValues == { 0, 9, 12 }

\* miner.difficulty = v, between calls
InjectDifficulty ==
    /\ UNCHANGED tallyVars
    /\ pc = "idle"
    /\ \E v \in InjectValues : difficulty' = v
    /\ result' = Null
    /\ progress' = Null
    /\ notifications' = 0
    /\ adjustArg' = <<>>
    /\ UNCHANGED << blockReward, ubiShare, minerShare, miningStats, callVars,
                    attemptVars, foundLog, successes, runAdjusts, attempts >>
    /\ UNCHANGED auxVars

Next ==
    \/ CallMineBlock
    \/ MineIteration
    \/ MineExhausted
    \/ CallStartMining
    \/ LoopMineBlock
    \/ HandleSuccess
    \/ HandleFailure
    \/ CallAdjustDifficulty

Spec == Init /\ [][Next]_vars

\* mineBlock is synchronous code: once entered, its loop runs to its return
LiveSpec == Spec /\ WF_vars(MineIteration) /\ WF_vars(MineExhausted)

NextInject == Next \/ InjectDifficulty

SpecInject == Init /\ [][NextInject]_vars

\* the miner with callbacks that may throw
NextFault == Next \/ ProgressThrows \/ CatchRejection \/ BlockFoundThrows

SpecFault == Init /\ [][NextFault]_vars

(***************************************************************************)
(* mineBlock run on the same header and difficulty with onProgress absent, *)
(* given, and given but throwing.  The runs advance together: the digest   *)
(* of a serialized header is one value, whichever run computes it.         *)
(***************************************************************************)
\* how onProgress is passed: not at all, a callback that returns, one that
\* throws
ProgressModes == { "none", "given", "failing" }

\* this.difficulty at the call
CmpDifficulties == { 0, 3, 4, 5, 8 }

\* mineBlock's locals before the loop
StartRun ==
    [ status |-> "searching", nonce |-> 0, hashCount |-> 0, hash |-> <<>>,
      notified |-> <<>> ]

\* one pass through the body of while (nonce < maxNonce) in a run called in
\* `mode`, `hash` being the digest of the serialized header
RunIteration_SkipNonce(run, mode, hash, d) ==
    IF run.status # "searching" THEN run
    ELSE IF isValidHash(hash, d)
    THEN [ run EXCEPT !.status = "found", !.hashCount = @ + 1, !.hash = hash ]
    ELSE [ run EXCEPT !.nonce = @ + 2, !.hashCount = @ + 1 ]

RunIteration(run, mode, hash, d) ==
    LET count == run.hashCount + 1
        report == ProgressDue(count)
        note == [ hashes |-> count, nonce |-> run.nonce, currentHash |-> hash ]
        told == IF report /\ mode # "none"
                THEN Append(run.notified, note)
                ELSE run.notified
    IN IF run.status # "searching" THEN run
       ELSE IF report /\ mode = "failing"
       THEN [ run EXCEPT !.status = "thrown", !.hashCount = count,
                         !.notified = told ]
       ELSE IF isValidHash(hash, d)
       THEN [ run EXCEPT !.status = "found", !.hashCount = count,
                         !.hash = hash, !.notified = told ]
       ELSE [ run EXCEPT !.nonce = @ + 1, !.hashCount = count,
                         !.notified = told ]

\* the loop condition fails in a run
RunExhausted(run) ==
    IF run.status = "searching" THEN [ run EXCEPT !.status = "exhausted" ]
    ELSE run

Searching == { m \in DOMAIN cmpRuns : cmpRuns[m].status = "searching" }

\* the runs are called with the same arguments at the same time on miners of
\* the same difficulty
CmpInit ==
    /\ MinerInit
    /\ cmpDifficulty \in CmpDifficulties
    /\ \E addr \in MinerAddresses, now \in Timestamps :
         cmpHeader = generateBlockHeader(cmpDifficulty, addr, now)
    /\ cmpRuns = [ m \in ProgressModes |-> StartRun ]
    /\ other = <<>>
    /\ isMining = FALSE
    /\ MerkleIdle
    /\ ExtIdle

\* the runs still searching make their next iteration
CmpIterate ==
    /\ Searching # {}
    /\ \E m \in Searching :
         /\ WhileCond(cmpRuns[m].nonce)
         /\ LET header == WithNonce(cmpHeader, cmpRuns[m].nonce) IN
            \E hash \in Sha256(serializeBlockHeader(header)) :
              /\ cmpRuns' = [ k \in ProgressModes |->
                                RunIteration(cmpRuns[k], k, hash, cmpDifficulty) ]
              /\ cmpHeader' = header
    /\ UNCHANGED << mainVars, cmpDifficulty, other, isMining, merkleVars, extVars >>

\* the runs still searching leave the loop
CmpExhaust ==
    /\ Searching # {}
    /\ \A m \in Searching : ~WhileCond(cmpRuns[m].nonce)
    /\ cmpRuns' = [ k \in ProgressModes |-> RunExhausted(cmpRuns[k]) ]
    /\ UNCHANGED << mainVars, cmpDifficulty, cmpHeader, other, isMining,
                    merkleVars, extVars >>

NextCompare == CmpIterate \/ CmpExhaust

SpecCompare == CmpInit /\ [][NextCompare]_vars

(***************************************************************************)
(* Two startMining calls on one miner.  mineBlock contains no await, so a  *)
(* call runs from the top of its loop to the return of mineBlock without   *)
(* interruption; at await this.mineBlock(...) it is suspended and the      *)
(* other call, or the caller, may run.                                     *)
(***************************************************************************)
\* the arguments and locals of the startMining call that is running, which
\* is suspended at its await
Suspended ==
    [ minerAddress |-> minerAddress, onBlockFound |-> onBlockFound,
      onProgress |-> onProgress, blockNumber |-> blockNumber,
      result |-> result, foundLog |-> foundLog, successes |-> successes,
      runAdjusts |-> runAdjusts ]

\* the suspended call c continues after its await
Continue(c) ==
    /\ pc' = "returned"
    /\ inLoop' = TRUE
    /\ minerAddress' = c.minerAddress
    /\ onBlockFound' = c.onBlockFound
    /\ onProgress' = c.onProgress
    /\ blockNumber' = c.blockNumber
    /\ result' = c.result
    /\ foundLog' = c.foundLog
    /\ successes' = c.successes
    /\ runAdjusts' = c.runAdjusts

\* startMining(...); startMining(...): the first call has run up to the
\* await of its first attempt and returned its promise, and the caller
\* repeats the call on the same miner, with the same arguments
SecondStartMining ==
    /\ pc = "returned"
    /\ inLoop
    /\ blockNumber = 1
    /\ other = <<>>
    /\ attempts < MaxAttempts
    /\ other' = << Suspended >>
    /\ UNCHANGED << minerAddress, onBlockFound, onProgress >>
    /\ blockNumber' = 1
    /\ pc' = "loop"
    /\ result' = Null
    /\ progress' = Null
    /\ notifications' = 0
    /\ foundLog' = <<>>
    /\ adjustArg' = <<>>
    /\ successes' = 0
    /\ runAdjusts' = 0
    /\ UNCHANGED << minerVars, inLoop, attemptVars, attempts, tallyVars,
                    cmpVars, isMining, merkleVars, extVars >>

\* both calls are at their await and the other one continues first
SwitchLoop ==
    /\ pc = "returned"
    /\ inLoop
    /\ other # <<>>
    /\ other' = << Suspended >>
    /\ Continue(other[1])
    /\ UNCHANGED << minerVars, attemptVars, progress, notifications,
                    adjustArg, attempts, tallyVars, cmpVars, isMining,
                    merkleVars, extVars >>

\* the running call has returned and the suspended one continues
ResumeLoop ==
    /\ pc = "idle"
    /\ ~inLoop
    /\ other # <<>>
    /\ other' = <<>>
    /\ Continue(other[1])
    /\ UNCHANGED << minerVars, attemptVars, progress, notifications,
                    adjustArg, attempts, tallyVars, cmpVars, isMining,
                    merkleVars, extVars >>

NextTwoLoops ==
    \/ CallStartMining
    \/ LoopMineBlock
    \/ MineIteration
    \/ MineExhausted
    \/ HandleSuccess
    \/ HandleFailure
    \/ SecondStartMining
    \/ SwitchLoop
    \/ ResumeLoop

SpecTwoLoops == Init /\ [][NextTwoLoops]_vars

(***************************************************************************)
(* MiningClient: a client that has connected (its minerAddress is set)     *)
(* drives its own miner.                                                   *)
(***************************************************************************)
\* MiningClient.startMining(): returns at once when already mining; else
\* sets the flag and calls this.miner.startMining with its two callbacks,
\* without awaiting it.  Nothing but the flag is tested: after stop() a call
\* made while the miner's loop is suspended at its await starts a second
\* loop on the same miner, and the first one stays suspended.
ClientStartMining ==
    /\ pc \in { "idle", "returned" }
    /\ ~isMining
    /\ other = <<>>
    /\ attempts < MaxAttempts
    /\ isMining' = TRUE
    /\ IF pc = "returned"
       THEN /\ other' = << Suspended >>
            /\ UNCHANGED minerAddress
       ELSE /\ other' = other
            /\ \E addr \in MinerAddresses : minerAddress' = addr
    /\ onBlockFound' = TRUE
    /\ onProgress' = TRUE
    /\ inLoop' = TRUE
    /\ blockNumber' = 1
    /\ pc' = "loop"
    /\ result' = Null
    /\ progress' = Null
    /\ notifications' = 0
    /\ foundLog' = <<>>
    /\ adjustArg' = <<>>
    /\ successes' = 0
    /\ runAdjusts' = 0
    /\ UNCHANGED << minerVars, attemptVars, attempts, tallyVars, cmpVars,
                    merkleVars, extVars >>

\* MiningClient.stop(), called while the miner's loop is at its await or
\* after it has returned: clears the flag (and prints the statistics)
ClientStop ==
    /\ pc \in { "returned", "idle" }
    /\ isMining
    /\ isMining' = FALSE
    /\ UNCHANGED << mainVars, cmpVars, other, merkleVars, extVars >>

NextClient ==
    \/ ClientStartMining
    \/ ClientStop
    \/ LoopMineBlock
    \/ MineIteration
    \/ MineExhausted
    \/ HandleSuccess
    \/ HandleFailure
    \/ SwitchLoop
    \/ ResumeLoop

SpecClient == Init /\ [][NextClient]_vars

(***************************************************************************)
(* calculateMerkleRoot and generateBlockHeader called on their own.        *)
(***************************************************************************)
\* this.difficulty at a generateBlockHeader call
HeaderDifficulties == { 1, 4, 8 }

\* miner.calculateMerkleRoot(txs)
CallCalculateMerkleRoot ==
    /\ \E txs \in TxLists(MaxTxs) :
         /\ transactions' = txs
         /\ merkleRoot' = calculateMerkleRoot(txs)
    /\ UNCHANGED << mainVars, cmpVars, other, isMining, builtHeader,
                    extVars >>

\* miner.generateBlockHeader(null, minerAddress)
CallGenerateBlockHeader ==
    /\ \E d \in HeaderDifficulties, addr \in MinerAddresses, now \in Timestamps :
         builtHeader' = generateBlockHeader(d, addr, now)
    /\ UNCHANGED << mainVars, cmpVars, other, isMining, transactions,
                    merkleRoot, extVars >>

NextMerkle == CallCalculateMerkleRoot \/ CallGenerateBlockHeader

SpecMerkle == Init /\ [][NextMerkle]_vars

(***************************************************************************)
(* Two independent runs of generateBlockHeader, the nonce assignment and   *)
(* serializeBlockHeader, on arguments the caller chooses.                  *)
(***************************************************************************)
\* a previous hash and a miner identifier that contain the separator
CraftedPrev ==
    << "p", "|" >> \o EmptyDigest \o << "|", "7", "|", "4", "|", "0", "|", "x" >>
CraftedMiner ==
    << "x", "|" >> \o EmptyDigest \o << "|", "7", "|", "4", "|", "0", "|", "m" >>

\* previousHash arguments: null, '', and two strings
SerPrevHashes == { << >>, << << >> >>, << << "p" >> >>, << CraftedPrev >> }

\* minerAddress arguments
SerMiners == { << "m" >>, CraftedMiner }

\* timestamp arguments: left out, 0, 7
SerTimestamps == { << >>, << 0 >>, << 7 >> }

\* what Date.now() returns during a run
SerClocks == { 1000, 1001 }

\* this.difficulty during a run
SerDifficulties == { 4, 5 }

\* the nonce written into the header
SerNonces == { 0, 1 }

SerInputs ==
    [ previousHash : SerPrevHashes, miner : SerMiners,
      timestamp : SerTimestamps, now : SerClocks,
      difficulty : SerDifficulties, nonce : SerNonces ]

SerInit ==
    /\ MinerInit
    /\ CmpIdle
    /\ other = << >>
    /\ isMining = FALSE
    /\ MerkleIdle
    /\ WebIdle
    /\ SearchIdle
    /\ RuntimeIdle
    /\ serArgs \in [ 1 .. 2 -> SerInputs ]
    /\ serOut = [ i \in 1 .. 2 |-> << >> ]

\* run i: header = generateBlockHeader(previousHash, miner, timestamp);
\* header.nonce = nonce; serializeBlockHeader(header)
SerializeRun(i) ==
    /\ serOut[i] = << >>
    /\ LET a == serArgs[i]
           header == WithNonce(generateBlockHeaderWith(a.previousHash, a.miner,
                                 a.timestamp, a.difficulty, a.now), a.nonce)
       IN serOut' = [ serOut EXCEPT ![i] =
                        << [ header |-> header,
                             serialized |-> serializeBlockHeader(header) ] >> ]
    /\ UNCHANGED << mainVars, cmpVars, other, isMining, merkleVars, serArgs,
                    webVars, search, runtime >>

NextSerialize == \E i \in 1 .. 2 : SerializeRun(i)

SpecSerialize == SerInit /\ [][NextSerialize]_vars

(***************************************************************************)
(* The identity and UBI endpoints of server.js, the UUBIBlockchain class   *)
(* they call, and the UUBIToken contract behind it.  Identity records are  *)
(* modelled by their isVerified and isActive flags, amounts in units of    *)
(* UUUBI_AMOUNT and timestamps in seconds since the epoch.                 *)
(***************************************************************************)

\* how initialize() leaves the server: development mode or a missing private
\* key skip the connection, so this.contract stays null.  NODE_ENV is
\* 'development', 'production' or not set.
ServerModes ==
    { [ env |-> "development", contract |-> "none" ],
      [ env |-> "production", contract |-> "none" ],
      [ env |-> "production", contract |-> "connected" ],
      [ env |-> "unset", contract |-> "none" ],
      [ env |-> "unset", contract |-> "connected" ] }

\* request fields: << >> when the field is missing, else << value >>
WalletInputs == { << >>, << "" >>, << ServerWallet >>, << "w1" >> }
\* a signature is missing, empty, shorter than 10 characters or 10 long
SignatureInputs ==
    { << >>, << << >> >>, << << "s", "i", "g" >> >>,
      << << "s", "i", "g", "n", "a", "t", "u", "r", "e", "1" >> >> }

\* new Date('01/01/1990') in seconds since the epoch
FallbackBirthday == 631152000

\* the birthdays read from documents and sent in requests, at 00:00: the
\* 1st of January 1960 (before the epoch), the 1st of January 1990, and the
\* day of the deployment
Birthdays == { (0 - 3653) * SecondsPerDay, FallbackBirthday, FirstTime }

\* the dateOfBirth field of a request: missing, 0, or a timestamp in seconds
\* (a date string is converted to one)
DateInputs == { << >>, << 0 >> } \cup { << d >> : d \in Birthdays }

\* !walletAddress: undefined or the empty string
NoWallet(w) == w = << >> \/ w = << "" >>
\* !signature: undefined or the empty string
NoSignature(sig) == sig = << >> \/ sig = << << >> >>
\* !dateOfBirth: undefined or 0
NoDate(d) == d = << >> \/ d = << 0 >>

\* error texts are kept word by word: whether `word` is one of them
Contains(text, word) == \E i \in 1 .. Len(text) : text[i] = word

\* UUBIToken.canUserClaimUUBI
canUserClaimUUBI(ids, last, now, user) ==
    /\ ids[user].isVerified
    /\ ids[user].isActive
    /\ now >= last[user] + DISTRIBUTION_INTERVAL

\* UUBIToken.getTimeUntilNextClaim
getTimeUntilNextClaim(last, now, user) ==
    IF last[user] = 0 THEN 0
    ELSE IF now >= last[user] + DISTRIBUTION_INTERVAL THEN 0
    ELSE last[user] + DISTRIBUTION_INTERVAL - now

\* UUBIToken.canUserClaimBackdatedUUBI
canUserClaimBackdatedUUBI(ids, claimed, user) ==
    /\ ids[user].isVerified
    /\ ids[user].isActive
    /\ ~ claimed[user]

\* (block.timestamp - dateOfBirth) / 1 days, and the server's
\* Math.floor((Date.now() / 1000 - birthTimestamp) / 86400)
AgeInDays(now, dateOfBirth) == (now - dateOfBirth) \div SecondsPerDay

\* what getIdentityStatus returns without a contract and when a call throws
DefaultIdentityStatus == [ isVerified |-> FALSE, isActive |-> FALSE ]

getIdentityStatus_Verified(env, con, fails, ids, walletAddress) ==
    [ isVerified |-> TRUE, isActive |-> FALSE ]

\* UUBIBlockchain.getIdentityStatus; fails: the contract call throws
getIdentityStatus(env, con, fails, ids, walletAddress) ==
    IF env = "development" \/ con = "none" THEN DefaultIdentityStatus
    ELSE IF fails THEN DefaultIdentityStatus
    ELSE [ isVerified |-> ids[walletAddress].isVerified,
           isActive |-> ids[walletAddress].isActive ]

\* what getUUBIStatus returns without a contract and when a call throws
DefaultUUBIStatus ==
    [ canClaim |-> FALSE, timeUntilNextClaim |-> 0, balance |-> 0,
      nextClaimTime |-> 0 ]

\* what getUUBIStatus returns from the three values it has read, at `now`
UUBIStatus(canClaim, timeUntilNextClaim, balance, now) ==
    [ canClaim |-> canClaim,
      timeUntilNextClaim |-> timeUntilNextClaim,
      balance |-> balance,
      nextClaimTime |-> IF canClaim THEN 0 ELSE now + timeUntilNextClaim ]

ChainInit ==
    /\ MinerInit
    /\ CmpIdle
    /\ other = << >>
    /\ isMining = FALSE
    /\ MerkleIdle
    /\ SerIdle
    /\ SearchIdle
    /\ RuntimeIdle
    /\ LedgerInit
    /\ \E m \in ServerModes : nodeEnv = m.env /\ contract = m.contract
    /\ ChainFresh
    /\ ApiIdle

\* what the chain actions leave alone
OffChain == << mainVars, cmpVars, other, isMining, merkleVars, serVars, search,
              runtime,
              ledgerVars, sessionVars >>

\* what a transaction leaves alone
OffContract == << nodeEnv, contract, pending, extractedBirthdays, OffChain >>

(***************************************************************************)
(* Transactions and the clock of the chain.  They are mined whether or not *)
(* the server has a request in flight.                                     *)
(***************************************************************************)
\* a step in which the server starts no handler and writes no response
Quiet ==
    /\ calls' = << >>
    /\ response' = NoResponse

\* a transaction of a user or the owner is mined
Mined ==
    /\ chainTxs < MaxChainTxs
    /\ chainTxs' = chainTxs + 1
    /\ Quiet

\* the state UUBIToken.registerIdentity sent by `sender` leaves
Registered(sender) ==
    /\ identities' = [ identities EXCEPT ![sender] =
                         [ isVerified |-> TRUE, isActive |-> TRUE ] ]
    /\ registered' = registered \cup { sender }

\* whether UUBIToken.registerIdentity sent by `sender` with fresh hashes and
\* a non-empty signature passes its checks
CanRegister(sender) == ~ paused /\ ~ identities[sender].isVerified

\* UUBIToken.registerIdentity sent by a user's own wallet
RegisterIdentity(sender) ==
    /\ CanRegister(sender)
    /\ Mined
    /\ Registered(sender)
    /\ UNCHANGED << tokenVars, paused, chainTime, OffContract >>

\* UUBIToken.revokeIdentity(user) sent by the owner
RevokeIdentity(user) ==
    /\ identities[user].isVerified
    /\ Mined
    /\ identities' = [ identities EXCEPT ![user] = ZeroIdentity ]
    /\ UNCHANGED << tokenVars, paused, chainTime, registered, OffContract >>

\* the state UUBIToken.claimUUBI sent by `sender` leaves: the claim is
\* stamped and one UUUBI_AMOUNT is minted
Claimed(sender) ==
    /\ lastUUBIClaim' = [ lastUUBIClaim EXCEPT ![sender] = chainTime ]
    /\ totalUUBIClaimed' = [ totalUUBIClaimed EXCEPT ![sender] = @ + 1 ]
    /\ balanceOf' = [ balanceOf EXCEPT ![sender] = @ + 1 ]
    /\ UNCHANGED hasClaimedBackdatedUUBI

\* UUBIToken.claimUUBI sent by a user's own wallet
ClaimOnChain(sender) ==
    /\ canUserClaimUUBI(identities, lastUUBIClaim, chainTime, sender)
    /\ Mined
    /\ Claimed(sender)
    /\ UNCHANGED << identities, paused, chainTime, registered, OffContract >>

\* whether UUBIToken.claimBackdatedUUBI(dateOfBirth) sent by `sender` passes
\* its checks
CanClaimBackdated(sender, dateOfBirth) ==
    /\ identities[sender].isVerified
    /\ identities[sender].isActive
    /\ dateOfBirth > 0
    /\ dateOfBirth < chainTime
    /\ AgeInDays(chainTime, dateOfBirth) > 0
    /\ ~ hasClaimedBackdatedUUBI[sender]

\* the state UUBIToken.claimBackdatedUUBI(dateOfBirth) sent by `sender`
\* leaves: the flag is set and ageInDays amounts are minted
ClaimedBackdated(sender, dateOfBirth) ==
    /\ hasClaimedBackdatedUUBI' = [ hasClaimedBackdatedUUBI EXCEPT
                                      ![sender] = TRUE ]
    /\ totalUUBIClaimed' = [ totalUUBIClaimed EXCEPT ![sender] =
                               @ + AgeInDays(chainTime, dateOfBirth) ]
    /\ balanceOf' = [ balanceOf EXCEPT ![sender] =
                        @ + AgeInDays(chainTime, dateOfBirth) ]
    /\ UNCHANGED lastUUBIClaim

\* UUBIToken.claimBackdatedUUBI(dateOfBirth) sent by a user's own wallet
ClaimBackdatedOnChain(sender, dateOfBirth) ==
    /\ CanClaimBackdated(sender, dateOfBirth)
    /\ Mined
    /\ ClaimedBackdated(sender, dateOfBirth)
    /\ UNCHANGED << identities, paused, chainTime, registered, OffContract >>

\* ERC20 transfer(to, amount) sent by `from`, with its whole balance
Transfer(from, to) ==
    /\ from # to
    /\ Mined
    /\ balanceOf[from] > 0
    /\ balanceOf' = [ balanceOf EXCEPT ![from] = 0,
                                       ![to] = @ + balanceOf[from] ]
    /\ UNCHANGED << lastUUBIClaim, totalUUBIClaimed, hasClaimedBackdatedUUBI,
                    identities, paused, chainTime, registered, OffContract >>

\* UUBIToken.pause() sent by the owner
Pause ==
    /\ ~ paused
    /\ Mined
    /\ paused' = TRUE
    /\ UNCHANGED << tokenVars, identities, chainTime, registered, OffContract >>

\* UUBIToken.unpause() sent by the owner
Unpause ==
    /\ paused
    /\ Mined
    /\ paused' = FALSE
    /\ UNCHANGED << tokenVars, identities, chainTime, registered, OffContract >>

\* half a day passes
TimePasses ==
    /\ chainTime < LastTime
    /\ chainTime' = chainTime + ClockStep
    /\ Quiet
    /\ UNCHANGED << tokenVars, identities, paused, chainTxs, registered,
                    OffContract >>

(***************************************************************************)
(* Requests.  A handler runs from its start to its first await of the      *)
(* contract, and from the answer of each call to the next await.  A call   *)
(* is answered by the node in a step of its own (a read takes its value    *)
(* from the chain as it is then, a transaction is mined or reverts), and   *)
(* the handler that has its last answer resumes in a later step, in which  *)
(* it writes its response.  Transactions of other senders are mined and    *)
(* other requests are served in between; up to MaxInFlight requests are    *)
(* in flight at a time.  Each request has its own req and res objects:     *)
(* two requests with the same route and fields are two requests, each with *)
(* its own calls and its own response.                                     *)
(***************************************************************************)
\* what a step of the server that sends no transaction leaves alone
OffRead == << chainVars, extractedBirthdays, OffChain >>

\* the answer to a request whose handler has met no await
Answered(r) ==
    /\ response' = r
    /\ UNCHANGED pending

\* a request in flight: its handler waits for the answer of the call
\* `awaits`; "resume" when the answer of its last call is there and the
\* handler has not resumed yet.  thrown: that call threw.  id tells the
\* request from the others in flight; it is given when the handler stops at
\* its first await.
InFlightRequest(route, request, awaits) ==
    [ id |-> 0, route |-> route, request |-> request, awaits |-> awaits,
      thrown |-> FALSE, identity |-> Null, canClaim |-> FALSE,
      timeUntilNextClaim |-> 0, balance |-> 0, dateOfBirth |-> 0,
      ageInDays |-> 0 ]

\* the ids no request in flight has
FreeIds == (1 .. MaxInFlight) \ { q.id : q \in pending }

\* the handler of a request stops at its first await: the request is in
\* flight next to the others, those with the same route and fields included
Suspend(r) ==
    /\ FreeIds # { }
    /\ pending' = pending \cup
                    { [ r EXCEPT !.id = CHOOSE i \in FreeIds :
                                          \A j \in FreeIds : i <= j ] }
    /\ response' = NoResponse

\* the request r in flight goes on as q, which keeps the id of r
Proceed(r, q) == pending' = (pending \ { r }) \cup { q }

\* the request r in flight waits for the answer of `call`
Awaits(r, route, call) ==
    /\ r \in pending
    /\ r.route = route
    /\ r.awaits = call

\* the call r waits for threw: the method returns what its catch block
\* builds once the handler resumes
Threw(r) == [ r EXCEPT !.thrown = TRUE, !.awaits = "resume" ]

\* a response of GET /api/identity/:walletAddress
IdentityResponse(walletAddress, status) ==
    [ route |-> "identity",
      request |-> [ walletAddress |-> walletAddress ],
      status |-> 200, success |-> TRUE, error |-> << >>,
      data |-> status ]

\* GET /api/identity/:walletAddress up to await contract.getIdentity
GetIdentity(walletAddress) ==
    /\ calls' = << "getIdentityStatus" >>
    /\ IF nodeEnv = "development" \/ contract = "none"
       THEN Answered(IdentityResponse(walletAddress,
              getIdentityStatus(nodeEnv, contract, FALSE, identities,
                                walletAddress)))
       ELSE Suspend(InFlightRequest("identity",
                      [ walletAddress |-> walletAddress ], "getIdentity"))
    /\ UNCHANGED OffRead

\* the node answers contract.getIdentity; fails: the call throws
IdentityRead(r, fails) ==
    /\ Awaits(r, "identity", "getIdentity")
    /\ Proceed(r, [ r EXCEPT
                      !.awaits = "resume",
                      !.identity =
                         getIdentityStatus(nodeEnv, contract, fails,
                                           identities,
                                           r.request.walletAddress) ])
    /\ Quiet
    /\ UNCHANGED OffRead

\* a response of GET /api/ubi-status/:walletAddress
UbiStatusResponse(walletAddress, status) ==
    [ route |-> "ubi-status",
      request |-> [ walletAddress |-> walletAddress ],
      status |-> 200, success |-> TRUE, error |-> << >>,
      data |-> status ]

\* GET /api/ubi-status/:walletAddress up to await contract.canUserClaimUUBI
GetUbiStatus(walletAddress) ==
    /\ calls' = << "getUUBIStatus" >>
    /\ IF nodeEnv = "development" \/ contract = "none"
       THEN Answered(UbiStatusResponse(walletAddress, DefaultUUBIStatus))
       ELSE Suspend(InFlightRequest("ubi-status",
                      [ walletAddress |-> walletAddress ],
                      "canUserClaimUUBI"))
    /\ UNCHANGED OffRead

\* the node answers contract.canUserClaimUUBI and getUUBIStatus goes on to
\* await contract.getTimeUntilNextClaim; fails: the call throws
UbiStatusReadCanClaim(r, fails) ==
    /\ Awaits(r, "ubi-status", "canUserClaimUUBI")
    /\ Proceed(r, IF fails THEN Threw(r)
                  ELSE [ r EXCEPT
                           !.awaits = "getTimeUntilNextClaim",
                           !.canClaim =
                              canUserClaimUUBI(identities, lastUUBIClaim,
                                               chainTime,
                                               r.request.walletAddress) ])
    /\ Quiet
    /\ UNCHANGED OffRead

\* the node answers contract.getTimeUntilNextClaim and getUUBIStatus goes on
\* to await contract.balanceOf
UbiStatusReadTime(r, fails) ==
    /\ Awaits(r, "ubi-status", "getTimeUntilNextClaim")
    /\ Proceed(r, IF fails THEN Threw(r)
                  ELSE [ r EXCEPT
                           !.awaits = "balanceOf",
                           !.timeUntilNextClaim =
                              getTimeUntilNextClaim(lastUUBIClaim, chainTime,
                                                    r.request.walletAddress) ])
    /\ Quiet
    /\ UNCHANGED OffRead

\* the node answers contract.balanceOf
UbiStatusReadBalance(r, fails) ==
    /\ Awaits(r, "ubi-status", "balanceOf")
    /\ Proceed(r, IF fails THEN Threw(r)
                  ELSE [ r EXCEPT
                           !.awaits = "resume",
                           !.balance = balanceOf[r.request.walletAddress] ])
    /\ Quiet
    /\ UNCHANGED OffRead

\* the signature check of UUBIBlockchain.claimUUBI, and this.contract is
\* there to be called
claimUUBI_Passes(signature) ==
    /\ ~ NoSignature(signature)
    /\ Len(signature[1]) >= 10
    /\ contract = "connected"

claimUbiRejects_WalletOnly(walletAddress, signature) == NoWallet(walletAddress)

\* the field check of POST /api/claim-ubi
claimUbiRejects(walletAddress, signature) ==
    NoWallet(walletAddress) \/ NoSignature(signature)

\* a response of a request that claims or registers
ClaimResponse(route, request, status, error, data) ==
    [ route |-> route, request |-> request,
      status |-> status, success |-> status = 200, error |-> error,
      data |-> data ]

\* POST /api/claim-ubi up to await contract.canUserClaimUUBI
PostClaimUbi(walletAddress, signature) ==
    LET request == [ walletAddress |-> walletAddress,
                     signature |-> signature ]
    IN
    /\ IF claimUbiRejects(walletAddress, signature)
       THEN /\ calls' = << >>
            /\ Answered(ClaimResponse("claim-ubi", request, 400,
                          << "Wallet", "address", "and", "signature", "are",
                             "required" >>, Null))
       ELSE /\ calls' = << "claimUUBI" >>
            /\ IF ~ claimUUBI_Passes(signature)
               THEN Answered(ClaimResponse("claim-ubi", request, 400,
                               << "UUBI", "claim", "failed" >>, Null))
               ELSE Suspend(InFlightRequest("claim-ubi", request,
                                            "canUserClaimUUBI"))
    /\ UNCHANGED OffRead

\* the node answers contract.canUserClaimUUBI(walletAddress) and claimUUBI
\* goes on: it throws, returns its simulated result, or sends
\* contract.claimUUBI() from the server's wallet; fails: the call throws
ClaimUbiReadCanClaim(r, fails) ==
    /\ Awaits(r, "claim-ubi", "canUserClaimUUBI")
    /\ Proceed(r,
         IF fails \/ ~ canUserClaimUUBI(identities, lastUUBIClaim, chainTime,
                                        r.request.walletAddress[1])
         THEN Threw(r)
         ELSE IF nodeEnv = "development"
         THEN [ r EXCEPT !.awaits = "resume" ]
         ELSE [ r EXCEPT !.awaits = "claimUUBI" ])
    /\ Quiet
    /\ UNCHANGED OffRead

\* what a step of the server that changes the token's state leaves alone
OffToken == << nodeEnv, contract, identities, paused, chainTime, chainTxs,
               registered, extractedBirthdays, OffChain >>

\* contract.claimUUBI() sent by the server's wallet is mined or reverts, and
\* tx.wait() has its answer; fails: sending or waiting throws
ClaimUbiTransact(r, fails) ==
    /\ Awaits(r, "claim-ubi", "claimUUBI")
    /\ IF ~ fails /\ canUserClaimUUBI(identities, lastUUBIClaim, chainTime,
                                      ServerWallet)
       THEN /\ Claimed(ServerWallet)
            /\ Proceed(r, [ r EXCEPT !.awaits = "resume" ])
       ELSE /\ UNCHANGED tokenVars
            /\ Proceed(r, Threw(r))
    /\ Quiet
    /\ UNCHANGED OffToken

\* isDevelopmentMode of claimBackdatedUUBI and of the automatic claim
\* handler: NODE_ENV is 'development' or not set
IsDevelopmentMode == nodeEnv \in { "development", "unset" }

\* whether UUBIBlockchain.claimBackdatedUUBI gets past its signature check
\* and its date check, and has a contract to call where it calls one
claimBackdatedUUBI_Passes(dateOfBirth, signature) ==
    /\ IsDevelopmentMode \/ Len(signature) >= 10
    /\ dateOfBirth # 0
    /\ dateOfBirth < chainTime
    /\ nodeEnv = "development" \/ contract = "connected"

\* UUBIBlockchain.claimBackdatedUUBI up to its first await, called by the
\* handler of `route` with the fields it has checked
CallClaimBackdated(route, request, dateOfBirth, signature) ==
    /\ calls' = << "claimBackdatedUUBI" >>
    /\ IF ~ claimBackdatedUUBI_Passes(dateOfBirth, signature)
       THEN Answered(ClaimResponse(route, request, 400,
                       << "Backdated", "UUBI", "claim", "failed" >>, Null))
       ELSE IF nodeEnv = "development"
       THEN Answered(ClaimResponse(route, request, 200, << >>,
                       [ ageInDays |-> AgeInDays(chainTime, dateOfBirth) ]))
       ELSE Suspend([ InFlightRequest(route, request,
                                      "canUserClaimBackdatedUUBI")
                        EXCEPT !.dateOfBirth = dateOfBirth ])

\* POST /api/claim-backdated-uubi up to the first await of
\* claimBackdatedUUBI
PostClaimBackdated(walletAddress, dateOfBirth, signature) ==
    LET request == [ walletAddress |-> walletAddress ]
    IN
    /\ IF NoWallet(walletAddress) \/ NoDate(dateOfBirth)
          \/ NoSignature(signature)
       THEN /\ calls' = << >>
            /\ Answered(ClaimResponse("claim-backdated-uubi", request, 400,
                          << "Wallet", "address,", "date", "of", "birth,",
                             "and", "signature", "are", "required" >>, Null))
       ELSE CallClaimBackdated("claim-backdated-uubi", request,
                               dateOfBirth[1], signature[1])
    /\ UNCHANGED OffRead

\* extractedBirthdays.get(walletAddress): the map is keyed by the address
\* of the server's wallet
StoredBirthday(walletAddress) ==
    IF walletAddress = ServerWallet THEN extractedBirthdays ELSE << >>

\* POST /api/claim-backdated-uubi-auto up to the first await of
\* claimBackdatedUUBI
PostClaimBackdatedAuto(walletAddress, signature) ==
    LET request == [ walletAddress |-> walletAddress ]
        route == "claim-backdated-uubi-auto"
    IN
    /\ IF NoWallet(walletAddress) \/ NoSignature(signature)
       THEN /\ calls' = << >>
            /\ Answered(ClaimResponse(route, request, 400,
                          << "Wallet", "address", "and", "signature", "are",
                             "required" >>, Null))
       ELSE IF StoredBirthday(walletAddress[1]) # << >>
       THEN CallClaimBackdated(route, request,
                               StoredBirthday(walletAddress[1])[1],
                               signature[1])
       ELSE IF IsDevelopmentMode
       THEN CallClaimBackdated(route, request, FallbackBirthday,
                               signature[1])
       ELSE /\ calls' = << >>
            /\ Answered(ClaimResponse(route, request, 400,
                          << "No", "extracted", "birthday", "found", "for",
                             "this", "wallet", "address.", "Please",
                             "register", "your", "identity", "first." >>,
                          Null))
    /\ UNCHANGED OffRead

\* the node answers contract.canUserClaimBackdatedUUBI(walletAddress) from
\* the chain as it is then; fails: the call throws.  claimBackdatedUUBI has
\* not gone on yet.
BackdatedReadCanClaim(r, fails) ==
    /\ r \in pending
    /\ r.awaits = "canUserClaimBackdatedUUBI"
    /\ Proceed(r,
         IF fails THEN Threw(r)
         ELSE [ r EXCEPT
                  !.awaits = "ageInDays",
                  !.canClaim =
                     canUserClaimBackdatedUUBI(identities,
                       hasClaimedBackdatedUUBI,
                       r.request.walletAddress[1]) ])
    /\ Quiet
    /\ UNCHANGED OffRead

\* claimBackdatedUUBI goes on with the answer of
\* contract.canUserClaimBackdatedUUBI: it throws when the answer is false,
\* else computes ageInDays from the clock as it is now and sends
\* contract.claimBackdatedUUBI(birthTimestamp) from the server's wallet,
\* which throws for a timestamp that is no uint256
BackdatedAgeInDays(r) ==
    /\ r \in pending
    /\ r.awaits = "ageInDays"
    /\ Proceed(r,
         IF ~ r.canClaim \/ r.dateOfBirth < 0
         THEN Threw(r)
         ELSE [ r EXCEPT !.awaits = "claimBackdatedUUBI",
                         !.ageInDays = AgeInDays(chainTime, r.dateOfBirth) ])
    /\ Quiet
    /\ UNCHANGED OffRead

\* contract.claimBackdatedUUBI(birthTimestamp) sent by the server's wallet is
\* mined or reverts, and tx.wait() has its answer; fails: sending or waiting
\* throws
ClaimBackdatedTransact(r, fails) ==
    /\ r \in pending
    /\ r.awaits = "claimBackdatedUUBI"
    /\ IF ~ fails /\ CanClaimBackdated(ServerWallet, r.dateOfBirth)
       THEN /\ ClaimedBackdated(ServerWallet, r.dateOfBirth)
            /\ Proceed(r, [ r EXCEPT !.awaits = "resume" ])
       ELSE /\ UNCHANGED tokenVars
            /\ Proceed(r, Threw(r))
    /\ Quiet
    /\ UNCHANGED OffToken

\* whether the birthday of a registration request is stored: one was read
\* from the document
StoresBirthday(request) == request.birthday # << >>

\* POST /api/register with a passport, a video and a document that pass the
\* biometric, document and identity checks, from there up to the first await
\* of UUBIBlockchain.registerIdentity: simulated in development mode and
\* without a contract, else the server's wallet sends
\* contract.registerIdentity.  The birthday read from the document, if one
\* was, is stored under the address of the server's wallet when
\* registerIdentity has returned its success.
PostRegister(birthday) ==
    LET request == [ birthday |-> birthday ]
    IN
    /\ calls' = << "registerIdentity" >>
    /\ IF nodeEnv = "development" \/ contract = "none"
       THEN /\ extractedBirthdays' =
                 IF StoresBirthday(request) THEN birthday
                 ELSE extractedBirthdays
            /\ Answered(ClaimResponse("register", request, 200, << >>, Null))
       ELSE /\ UNCHANGED extractedBirthdays
            /\ Suspend(InFlightRequest("register", request,
                                       "registerIdentity"))
    /\ UNCHANGED << chainVars, OffChain >>

\* contract.registerIdentity sent by the server's wallet is mined or
\* reverts, and tx.wait() has its answer; fails: sending or waiting throws
RegisterTransact(r, fails) ==
    /\ Awaits(r, "register", "registerIdentity")
    /\ IF ~ fails /\ CanRegister(ServerWallet)
       THEN /\ Registered(ServerWallet)
            /\ Proceed(r, [ r EXCEPT !.awaits = "resume" ])
       ELSE /\ UNCHANGED << identities, registered >>
            /\ Proceed(r, Threw(r))
    /\ Quiet
    /\ UNCHANGED << nodeEnv, contract, tokenVars, paused, chainTime, chainTxs,
                    extractedBirthdays, OffChain >>

\* what the handler of the request r in flight answers when it resumes at
\* `now` with the answer of its last call
Reply(r, now) ==
    CASE r.route = "identity" ->
           IdentityResponse(r.request.walletAddress, r.identity)
      [] r.route = "ubi-status" ->
           UbiStatusResponse(r.request.walletAddress,
             IF r.thrown THEN DefaultUUBIStatus
             ELSE UUBIStatus(r.canClaim, r.timeUntilNextClaim, r.balance,
                             now))
      [] r.route = "claim-ubi" ->
           IF r.thrown
           THEN ClaimResponse(r.route, r.request, 400,
                              << "UUBI", "claim", "failed" >>, Null)
           ELSE ClaimResponse(r.route, r.request, 200, << >>, Null)
      [] r.route = "register" ->
           IF r.thrown
           THEN ClaimResponse(r.route, r.request, 500,
                              << "Blockchain", "registration", "failed" >>,
                              Null)
           ELSE ClaimResponse(r.route, r.request, 200, << >>, Null)
      [] OTHER ->
           IF r.thrown
           THEN ClaimResponse(r.route, r.request, 400,
                              << "Backdated", "UUBI", "claim", "failed" >>,
                              Null)
           ELSE ClaimResponse(r.route, r.request, 200, << >>,
                              [ ageInDays |-> r.ageInDays ])

\* the handler of the request r in flight resumes with the answer of its
\* last call and writes its response; the registration handler stores the
\* birthday first
Resume(r) ==
    /\ r \in pending
    /\ r.awaits = "resume"
    /\ pending' = pending \ { r }
    /\ response' = Reply(r, chainTime)
    /\ calls' = << >>
    /\ extractedBirthdays' =
         IF r.route = "register" /\ ~ r.thrown /\ StoresBirthday(r.request)
         THEN r.request.birthday
         ELSE extractedBirthdays
    /\ UNCHANGED << chainVars, OffChain >>

\* POST /api/clear-registrations
PostClearRegistrations ==
    /\ calls' = << >>
    /\ extractedBirthdays' = << >>
    /\ Answered(ClaimResponse("clear-registrations", Null, 200, << >>, Null))
    /\ UNCHANGED << chainVars, OffChain >>

\* the transactions of the users and the owner, and the clock
ChainStep ==
    \/ \E w \in Wallets : RegisterIdentity(w)
    \/ \E w \in Wallets : RevokeIdentity(w)
    \/ \E w \in Wallets : ClaimOnChain(w)
    \/ \E w \in Wallets, d \in Birthdays : ClaimBackdatedOnChain(w, d)
    \/ \E from \in Wallets, to \in Wallets : Transfer(from, to)
    \/ Pause
    \/ Unpause
    \/ TimePasses

\* the steps of the two status requests
StatusStep ==
    \/ \E w \in Wallets : GetIdentity(w)
    \/ \E w \in Wallets : GetUbiStatus(w)
    \/ \E r \in pending, fails \in BOOLEAN : IdentityRead(r, fails)
    \/ \E r \in pending, fails \in BOOLEAN : UbiStatusReadCanClaim(r, fails)
    \/ \E r \in pending, fails \in BOOLEAN : UbiStatusReadTime(r, fails)
    \/ \E r \in pending, fails \in BOOLEAN : UbiStatusReadBalance(r, fails)
    \/ \E r \in pending : Resume(r)

\* the chain and a server that is asked for the status of addresses
NextChain ==
    \/ ChainStep
    \/ StatusStep

SpecChain == ChainInit /\ [][NextChain]_vars

\* the steps of POST /api/claim-ubi
ClaimStep ==
    \/ \E w \in WalletInputs, sig \in SignatureInputs : PostClaimUbi(w, sig)
    \/ \E r \in pending, fails \in BOOLEAN : ClaimUbiReadCanClaim(r, fails)
    \/ \E r \in pending, fails \in BOOLEAN : ClaimUbiTransact(r, fails)
    \/ \E r \in pending : Resume(r)

\* the chain and a server that is asked to claim UUBI.  The transactions the
\* server's wallet sends for other requests are among those of ChainStep.
NextClaim ==
    \/ ChainStep
    \/ ClaimStep

SpecClaim == ChainInit /\ [][NextClaim]_vars

\* the steps of POST /api/claim-backdated-uubi
BackdatedStep ==
    \/ \E w \in WalletInputs, d \in DateInputs, sig \in SignatureInputs :
         PostClaimBackdated(w, d, sig)
    \/ \E r \in pending, fails \in BOOLEAN : BackdatedReadCanClaim(r, fails)
    \/ \E r \in pending : BackdatedAgeInDays(r)
    \/ \E r \in pending, fails \in BOOLEAN : ClaimBackdatedTransact(r, fails)
    \/ \E r \in pending : Resume(r)

\* the chain, as far as it bears on backdated claims (users register and
\* claim for the fallback birthday themselves, time passes), and a server
\* that is asked to claim backdated UUBI for a given date of birth
NextBackdated ==
    \/ \E w \in Wallets : RegisterIdentity(w)
    \/ \E w \in Wallets : ClaimBackdatedOnChain(w, FallbackBirthday)
    \/ TimePasses
    \/ BackdatedStep

SpecBackdated == ChainInit /\ [][NextBackdated]_vars

\* the steps of the requests that write the server's extractedBirthdays
RegisterStep ==
    \/ \E d \in { << >> } \cup { << b >> : b \in Birthdays } : PostRegister(d)
    \/ \E r \in pending, fails \in BOOLEAN : RegisterTransact(r, fails)
    \/ PostClearRegistrations
    \/ \E r \in pending : Resume(r)

\* the chain, as far as it bears on registrations (the owner revokes
\* identities, time passes), and a server that is asked to register
\* identities and to claim backdated UUBI with the stored birthday
NextRegister ==
    \/ \E w \in Wallets : RevokeIdentity(w)
    \/ TimePasses
    \/ RegisterStep
    \/ \E w \in WalletInputs, sig \in SignatureInputs :
         PostClaimBackdatedAuto(w, sig)
    \/ \E r \in pending, fails \in BOOLEAN : BackdatedReadCanClaim(r, fails)
    \/ \E r \in pending : BackdatedAgeInDays(r)
    \/ \E r \in pending, fails \in BOOLEAN : ClaimBackdatedTransact(r, fails)

SpecRegister == ChainInit /\ [][NextRegister]_vars

(***************************************************************************)
(* One mineBlock search over a given table of digests: sha256 is a         *)
(* function, so the digest of the header at each nonce is fixed before the *)
(* loop starts, whichever digests they are.                                *)
(***************************************************************************)
\* this.difficulty at the call
SearchDifficulties == { 3, 4, 5 }

\* the nonces the loop condition admits
Nonces == { n \in 0 .. maxNonce : WhileCond(n) }

SearchInit ==
    /\ MinerInit
    /\ CmpIdle
    /\ other = << >>
    /\ isMining = FALSE
    /\ MerkleIdle
    /\ SerIdle
    /\ WebIdle
    /\ RuntimeIdle
    /\ \E d \in SearchDifficulties, table \in [ Nonces -> HashSamples ] :
         search = [ difficulty |-> d, hashOf |-> table, run |-> StartRun,
                    tried |-> << >> ]

\* one pass through the body of while (nonce < maxNonce)
SearchIterate ==
    /\ search.run.status = "searching"
    /\ WhileCond(search.run.nonce)
    /\ search' = [ search EXCEPT
                     !.run = RunIteration(@, "none",
                               search.hashOf[search.run.nonce],
                               search.difficulty),
                     !.tried = Append(@, search.run.nonce) ]
    /\ UNCHANGED << mainVars, cmpVars, other, isMining, merkleVars, serVars,
                    webVars, runtime >>

\* the loop condition fails
SearchExhaust ==
    /\ search.run.status = "searching"
    /\ ~ WhileCond(search.run.nonce)
    /\ search' = [ search EXCEPT !.run = RunExhausted(@) ]
    /\ UNCHANGED << mainVars, cmpVars, other, isMining, merkleVars, serVars,
                    webVars, runtime >>

NextSearch == SearchIterate \/ SearchExhaust

SpecSearch == SearchInit /\ [][NextSearch]_vars

(***************************************************************************)
(* The mining endpoints of server.js over miningData.  The handlers are    *)
(* synchronous, so each request is one step.  Clock readings (startTime,   *)
(* miningTime, timestamps) are left out of sessions and history entries.   *)
(***************************************************************************)
\* req.body.userId: << >> when missing, else << value >>
UserIdInputs == { << >>, << "" >>, << "u1" >>, << "u2" >> }
\* !userId
NoUser(userId) == userId = << >> \/ userId = << "" >>

\* values of the random draws of the simulated sessions
MiningPowers == { 1, 2 }
BaseCoins == { 5 }
DifficultyBonuses == { 0, 2 }

\* the block of a successful RealUBIMiner result, as MiningClient.reportBlock
\* sends it
MinerBlock ==
    FoundResult(WithNonce(generateBlockHeader(InitialDifficulty, << "u", "1" >>,
                                              1000), 2),
                HexSample(InitialDifficulty), 24000, 3, InitialDifficulty,
                BlockReward, MinerShare(BlockReward), UbiShare(BlockReward)).block

\* the block the web worker's notifyServerBlockMined sends: no header
WorkerBlock ==
    [ miningTime |-> 24000, hashrate |-> 25, hash |-> HexSample(0),
      blockNumber |-> 1 ]

\* the rewards of a successful RealUBIMiner result
MinerRewards ==
    [ total |-> BlockReward, miner |-> MinerShare(BlockReward),
      ubi |-> UbiShare(BlockReward) ]

\* the rewards completeMiningBlock of the web worker reports
WorkerRewards == [ total |-> 50, miner |-> 17, ubi |-> 33 ]

\* req.body.block and req.body.rewards: << >> when missing
BlockInputs == { << >>, << MinerBlock >>, << WorkerBlock >> }
RewardInputs == { << >>, << MinerRewards >>, << WorkerRewards >> }

\* a response of a mining endpoint; error texts are kept word by word
MiningResponse(route, request, status, error) ==
    [ route |-> route, request |-> request, status |-> status,
      success |-> status = 200, error |-> error, data |-> Null ]

\* the number of entries miningHistory is cut back to
HistoryLimit == 1000

\* miningHistory.length
HistoryLength(history) == history.loaded + Len(history.recent)

\* miningHistory.push(historyEntry), then slice(-1000) if it has grown
\* beyond 1000 entries: the oldest entry goes
PushHistory(history, historyEntry) ==
    LET pushed == [ history EXCEPT !.recent = Append(@, historyEntry) ]
    IN IF HistoryLength(pushed) > HistoryLimit
       THEN IF pushed.loaded > 0
            THEN [ pushed EXCEPT !.loaded = @ - 1 ]
            ELSE [ pushed EXCEPT !.recent = Tail(@) ]
       ELSE pushed

\* loadPersistentData() when mining.json holds a history that has reached
\* its limit, of entries crediting 1 of 3 coins to u2: sessions are not
\* loaded
LedgerLoaded ==
    /\ userBalances = [ u \in Users |-> IF u = "u2" THEN HistoryLimit ELSE 0 ]
    /\ ubiPool = 2 * HistoryLimit
    /\ totalMined = 3 * HistoryLimit
    /\ miningHistory = [ loaded |-> HistoryLimit, recent |-> << >> ]
    /\ activeMiners = [ u \in Users |-> << >> ]
    /\ ledgerWrites = 0

LedgerSpecInit ==
    /\ MinerInit
    /\ CmpIdle
    /\ other = << >>
    /\ isMining = FALSE
    /\ MerkleIdle
    /\ SerIdle
    /\ SearchIdle
    /\ RuntimeIdle
    /\ nodeEnv = "development"
    /\ contract = "none"
    /\ ChainFresh
    /\ ApiIdle
    /\ LedgerInit \/ LedgerLoaded

\* what the mining endpoints leave alone
OffLedger == << mainVars, cmpVars, other, isMining, merkleVars, serVars, search,
                runtime,
                chainVars, calls, pending, extractedBirthdays >>

\* POST /api/mining/start
PostMiningStart(userId, miningPower) ==
    /\ IF NoUser(userId)
       THEN /\ response' = MiningResponse("start", [ userId |-> userId ], 400,
                                          << "User", "ID", "is", "required" >>)
            /\ UNCHANGED activeMiners
       ELSE IF activeMiners[userId[1]] # << >>
       THEN /\ response' = MiningResponse("start", [ userId |-> userId ], 400,
                                          << "User", "is", "already", "mining" >>)
            /\ UNCHANGED activeMiners
       ELSE /\ activeMiners' =
                 [ activeMiners EXCEPT ![userId[1]] =
                     << [ userId |-> userId[1], miningPower |-> miningPower,
                          status |-> "active" ] >> ]
            /\ response' = MiningResponse("start", [ userId |-> userId ], 200,
                                          << >>)
    /\ UNCHANGED << ledgerVars, ledgerWrites, OffLedger >>

SessionsAfterComplete_Kept(userId) == activeMiners

\* miningData.activeMiners.delete(userId) of POST /api/mining/complete
SessionsAfterComplete(userId) == [ activeMiners EXCEPT ![userId] = << >> ]

\* POST /api/mining/complete
PostMiningComplete(userId, baseCoins, difficultyBonus) ==
    IF NoUser(userId)
    THEN /\ response' = MiningResponse("complete", [ userId |-> userId ], 400,
                                       << "User", "ID", "is", "required" >>)
         /\ UNCHANGED << ledgerVars, sessionVars, OffLedger >>
    ELSE IF activeMiners[userId[1]] = << >>
    THEN /\ response' = MiningResponse("complete", [ userId |-> userId ], 400,
                                       << "No", "active", "mining", "session", "found" >>)
         /\ UNCHANGED << ledgerVars, sessionVars, OffLedger >>
    ELSE LET miningSession == activeMiners[userId[1]][1]
             totalCoins == (baseCoins + difficultyBonus) * miningSession.miningPower
             userShare == totalCoins \div 3
             ubiShareOfCoins == totalCoins - userShare
         IN /\ ledgerWrites < MaxLedgerWrites
            /\ userBalances' = [ userBalances EXCEPT ![userId[1]] = @ + userShare ]
            /\ ubiPool' = ubiPool + ubiShareOfCoins
            /\ totalMined' = totalMined + totalCoins
            /\ miningHistory' =
                 PushHistory(miningHistory,
                        [ userId |-> userId[1], totalCoins |-> totalCoins,
                          userShare |-> userShare, ubiShare |-> ubiShareOfCoins,
                          miningPower |-> miningSession.miningPower,
                          isRealMining |-> FALSE ])
            /\ activeMiners' = SessionsAfterComplete(userId[1])
            /\ ledgerWrites' = ledgerWrites + 1
            /\ response' = MiningResponse("complete", [ userId |-> userId ], 200,
                                          << >>)
            /\ UNCHANGED OffLedger

\* POST /api/mining/stop
PostMiningStop(userId) ==
    /\ IF NoUser(userId)
       THEN /\ response' = MiningResponse("stop", [ userId |-> userId ], 400,
                                          << "User", "ID", "is", "required" >>)
            /\ UNCHANGED activeMiners
       ELSE /\ activeMiners' = [ activeMiners EXCEPT ![userId[1]] = << >> ]
            /\ response' = MiningResponse("stop", [ userId |-> userId ], 200,
                                          << >>)
    /\ UNCHANGED << ledgerVars, ledgerWrites, OffLedger >>

\* POST /api/mining/real-block
PostRealBlock(address, block, rewards) ==
    LET request == [ minerAddress |-> address, rewards |-> rewards ]
    IN IF block = << >>
       THEN /\ response' = MiningResponse("real-block", request, 400,
                                          << "Block", "data", "is", "missing" >>)
            /\ UNCHANGED << ledgerVars, sessionVars, OffLedger >>
       ELSE IF rewards = << >>
       THEN /\ response' = MiningResponse("real-block", request, 400,
                                          << "Rewards", "data", "is", "missing" >>)
            /\ UNCHANGED << ledgerVars, sessionVars, OffLedger >>
       ELSE /\ ledgerWrites < MaxLedgerWrites
            /\ userBalances' = [ userBalances EXCEPT
                                   ![address] = @ + rewards[1].miner ]
            /\ ubiPool' = ubiPool + rewards[1].ubi
            /\ totalMined' = totalMined + rewards[1].total
            /\ ledgerWrites' = ledgerWrites + 1
            /\ IF "header" \in DOMAIN block[1]
               THEN /\ miningHistory' =
                         PushHistory(miningHistory,
                                [ userId |-> address,
                                  totalCoins |-> rewards[1].total,
                                  userShare |-> rewards[1].miner,
                                  ubiShare |-> rewards[1].ubi,
                                  miningPower |-> block[1].hashrate,
                                  isRealMining |-> TRUE ])
                    /\ response' = MiningResponse("real-block", request, 200,
                                                  << >>)
               \* block.header.nonce throws a TypeError, caught by the handler
               ELSE /\ UNCHANGED miningHistory
                    /\ response' = MiningResponse("real-block", request, 500,
                                                  << "Failed", "to", "process", "block" >>)
            /\ UNCHANGED << activeMiners, OffLedger >>

NextLedger ==
    \/ \E userId \in UserIdInputs, p \in MiningPowers : PostMiningStart(userId, p)
    \/ \E userId \in UserIdInputs, c \in BaseCoins, b \in DifficultyBonuses :
         PostMiningComplete(userId, c, b)
    \/ \E userId \in UserIdInputs : PostMiningStop(userId)
    \/ \E u \in Users, block \in BlockInputs, rewards \in RewardInputs :
         PostRealBlock(u, block, rewards)

SpecLedger == LedgerSpecInit /\ [][NextLedger]_vars

(***************************************************************************)
(* The mining client as a Node.js process.  JavaScript runs to completion; *)
(* the continuation of an await on a settled promise is a microtask, and   *)
(* the microtask queue is drained before the event loop gets control; I/O  *)
(* completions and signal handlers are run by the event loop.  mineBlock   *)
(* contains no await, so its promise is settled when it returns, and the   *)
(* await of startMining is the loop's only suspension.                     *)
(***************************************************************************)
\* block numbers: those whose reports are followed one by one, and one for
\* all later, whose reports in flight are counted in `later`
FollowedBlocks == 1 .. MaxFollowed
NextFollowed(n) == Min(n + 1, MaxFollowed + 1)

\* the CLI after client.connect(minerAddress) resolved with true
RuntimeStart ==
    [ pc |-> "connected", nonce |-> 0, difficulty |-> InitialDifficulty,
      found |-> FALSE, blockNumber |-> 1,
      reports |-> [ b \in FollowedBlocks |-> "none" ], later |-> 0,
      sigint |-> "none", handler |-> FALSE ]

RuntimeInit ==
    /\ MinerInit
    /\ CmpIdle
    /\ other = << >>
    /\ isMining = FALSE
    /\ MerkleIdle
    /\ SerIdle
    /\ WebIdle
    /\ SearchIdle
    /\ runtime = RuntimeStart

OffRuntime == << mainVars, cmpVars, other, isMining, merkleVars, serVars,
                 webVars, search >>

\* the event loop gets control: no JavaScript is running and no microtask is
\* queued, which is the case only once the loop of startMining has ended
EventLoopRuns == runtime.pc = "ended"

\* client.startMining() -> this.miner.startMining(...) -> this.mineBlock(...),
\* one synchronous call chain up to the loop of mineBlock
RtStartMining ==
    /\ runtime.pc = "connected"
    /\ runtime' = [ runtime EXCEPT !.pc = "mining", !.nonce = 0 ]
    /\ UNCHANGED OffRuntime

\* mineBlock returns and startMining is suspended at its await.  At the
\* first await the call chain of client.startMining() returns to the CLI,
\* which registers its SIGINT handler.
Returned(found) ==
    [ runtime EXCEPT !.pc = "await", !.found = found, !.handler = TRUE ]

\* one iteration of while (nonce < maxNonce)
RtIterate ==
    /\ runtime.pc = "mining"
    /\ WhileCond(runtime.nonce)
    /\ \E hash \in Sha256(runtime.nonce) :
         runtime' = IF isValidHash(hash, runtime.difficulty)
                    THEN Returned(TRUE)
                    ELSE [ runtime EXCEPT !.nonce = @ + 1 ]
    /\ UNCHANGED OffRuntime

\* the nonce range is used up: mineBlock returns its failure result
RtExhaust ==
    /\ runtime.pc = "mining"
    /\ ~ WhileCond(runtime.nonce)
    /\ runtime' = Returned(FALSE)
    /\ UNCHANGED OffRuntime

\* the microtask that continues startMining after its await.  On success it
\* calls MiningClient.onBlockFound, which runs up to the fetch of reportBlock
\* and leaves the report waiting for its I/O; then blockNumber++,
\* adjustDifficulty, and the next mineBlock call.  On failure it breaks.
RtContinue ==
    /\ runtime.pc = "await"
    /\ IF runtime.found
       THEN \E t \in Elapsed :
              runtime' =
                [ runtime EXCEPT
                    !.pc = "mining",
                    !.nonce = 0,
                    !.found = FALSE,
                    !.reports = [ b \in FollowedBlocks |->
                                    IF b = runtime.blockNumber THEN "pending"
                                    ELSE @[b] ],
                    !.later = IF runtime.blockNumber \in FollowedBlocks
                              THEN @ ELSE Min(@ + 1, MaxLater),
                    !.blockNumber = NextFollowed(@),
                    !.difficulty = adjustDifficulty(@, t) ]
       ELSE runtime' = [ runtime EXCEPT !.pc = "ended" ]
    /\ UNCHANGED OffRuntime

\* the event loop has work to wait for: the fetch of a report is in flight,
\* of a followed block or of a later one.  The SIGINT listener of process.on
\* does not keep the process alive.
LoopAlive ==
    \/ \E b \in FollowedBlocks : runtime.reports[b] = "pending"
    \/ runtime.later > 0

\* what becomes of a delivered SIGINT in the iteration of the event loop
\* that completes a report: delivered before the iteration polled it is
\* picked up by it ("polled"), delivered later it is not
SigintAfterPoll ==
    IF runtime.sigint = "pending" THEN { "pending", "polled" }
    ELSE { runtime.sigint }

\* the event loop runs the completion of a report's fetch: reportBlock and
\* onBlockFound continue to their end
RtReportCompletes(b) ==
    /\ EventLoopRuns
    /\ runtime.reports[b] = "pending"
    /\ \E s \in SigintAfterPoll :
         runtime' = [ runtime EXCEPT !.reports[b] = "completed",
                                     !.sigint = s ]
    /\ UNCHANGED OffRuntime

\* the reports of later blocks in flight once one of them has completed:
\* one less, and of MaxLater or more also MaxLater or more
LaterAfterOne ==
    IF runtime.later = MaxLater THEN { MaxLater - 1, MaxLater }
    ELSE { runtime.later - 1 }

\* the event loop runs the completion of the fetch of a later block's report
RtLaterReportCompletes ==
    /\ EventLoopRuns
    /\ runtime.later > 0
    /\ \E n \in LaterAfterOne, s \in SigintAfterPoll :
         runtime' = [ runtime EXCEPT !.later = n, !.sigint = s ]
    /\ UNCHANGED OffRuntime

\* the user sends SIGINT: with the CLI's handler registered the signal
\* waits for the event loop; before that it ends the process
RtSignal ==
    /\ runtime.pc \in { "connected", "mining", "await", "ended" }
    /\ runtime.sigint = "none"
    /\ runtime' = IF runtime.handler
                  THEN [ runtime EXCEPT !.sigint = "pending" ]
                  ELSE [ runtime EXCEPT !.sigint = "killed", !.pc = "exited" ]
    /\ UNCHANGED OffRuntime

\* the event loop runs the SIGINT handler: client.stop(); process.exit(0).
\* It polls for the signal only while it has work to wait for.
RtHandleSigint ==
    /\ EventLoopRuns
    /\ \/ runtime.sigint = "polled"
       \/ runtime.sigint = "pending" /\ LoopAlive
    /\ runtime' = [ runtime EXCEPT !.sigint = "handled", !.pc = "exited" ]
    /\ UNCHANGED OffRuntime

\* the loop of startMining has ended and nothing is left to wait for: the
\* process ends with code 0; a SIGINT delivered by then is never handled
RtExit ==
    /\ EventLoopRuns
    /\ ~ LoopAlive
    /\ runtime.sigint # "polled"
    /\ runtime' = [ runtime EXCEPT !.pc = "exited" ]
    /\ UNCHANGED OffRuntime

NextRuntime ==
    \/ RtStartMining
    \/ RtIterate
    \/ RtExhaust
    \/ RtContinue
    \/ \E b \in FollowedBlocks : RtReportCompletes(b)
    \/ RtLaterReportCompletes
    \/ RtSignal
    \/ RtHandleSigint
    \/ RtExit

\* the process keeps running its JavaScript and its event loop
SpecRuntime ==
    /\ RuntimeInit
    /\ [][NextRuntime]_vars
    /\ WF_vars(RtStartMining)
    /\ WF_vars(RtIterate)
    /\ WF_vars(RtExhaust)
    /\ WF_vars(RtContinue)
    /\ \A b \in FollowedBlocks : WF_vars(RtReportCompletes(b))
    /\ WF_vars(RtLaterReportCompletes)
    /\ WF_vars(RtHandleSigint)
    /\ WF_vars(RtExit)

(***************************************************************************)
(* Properties.                                                             *)
(***************************************************************************)

Found == IsResult(result) /\ result.success

Exhausted == IsResult(result) /\ ~result.success

\* C1: every successful mineBlock result carries a hash of at least d
\* characters whose first d characters are all '0', d being the difficulty
\* the result reports; at difficulty 0 the result is found at nonce 0 after
\* exactly one hash.
C1_AcceptedHashHasZeroPrefix ==
    Found =>
      /\ Len(result.block.hash) >= result.block.difficulty
      /\ \A i \in 1 .. result.block.difficulty : result.block.hash[i] = "0"
      /\ result.block.difficulty = 0 =>
           /\ result.block.header.nonce = 0
           /\ result.block.hashes = 1

\* a block accepted at difficulty 0 whose hash does not start with '0'
C1_Witness ==
    /\ Found
    /\ result.block.difficulty = 0
    /\ result.block.hash[1] # "0"
    /\ result.block.hashes = 1

\* C2: every call of mineBlock terminates: a search never makes more than
\* maxNonce hash attempts, and a search that has started always comes to its
\* return with a Found or Exhausted result of at most maxNonce hashes.
C2_MineBlockTerminates ==
    /\ [](pc = "searching" => hashCount = nonce /\ nonce <= maxNonce)
    /\ [](Found => result.block.hashes <= maxNonce)
    /\ [](Exhausted => result.hashes <= maxNonce)
    /\ (pc = "searching") ~> (pc # "searching" /\ IsResult(result))

\* a search inside startMining that used up the whole nonce range has returned
C2_Witness ==
    /\ Exhausted
    /\ pc = "returned"
    /\ result.hashes = maxNonce

\* C3: a result of mineBlock that is not a success reports hashes equal to
\* the nonce bound, carries an error, and carries no block, header or rewards.
C3_ExhaustedResult ==
    Exhausted =>
      /\ result.hashes = maxNonce
      /\ "error" \in DOMAIN result
      /\ DOMAIN result \cap { "block", "header", "rewards" } = {}

\* a direct mineBlock call came back exhausted after a progress notification
C3_Witness ==
    /\ Exhausted
    /\ pc = "idle"
    /\ progress # Null
    /\ result.hashes = maxNonce

\* C4: for a difficulty d in 1..8 and a mining time t, adjustDifficulty(t)
\* leaves min(d+1, 8) if t < 24 s, max(d-1, 1) if t > 45 s, and d if
\* 24 s <= t <= 45 s.
C4_AdjustDifficultyTable ==
    [][ (adjustArg' # << >> /\ difficulty \in 1 .. 8) =>
          LET t == adjustArg'[1]
              d == difficulty
          IN difficulty' =
               IF t < 24000 THEN (IF d + 1 < 8 THEN d + 1 ELSE 8)
               ELSE IF t > 45000 THEN (IF d - 1 > 1 THEN d - 1 ELSE 1)
               ELSE d ]_vars

\* adjustDifficulty was just called with exactly 45 s at the top difficulty
C4_Witness ==
    /\ adjustArg = << 45000 >>
    /\ difficulty = 8

\* C5: from a fresh miner, after any sequence of mineBlock calls, startMining
\* iterations and adjustDifficulty calls, the difficulty is an integer in 1..8.
C5_DifficultyInRange == difficulty \in 1 .. 8

\* the difficulty sits at the floor after mining and a slow-block retarget
C5_Witness ==
    /\ difficulty = 1
    /\ adjustArg = << 45001 >>
    /\ miningStats.totalBlocks > 0

\* C6: a difficulty outside [1, 8] assigned from outside is clamped: right
\* after an adjustDifficulty call the difficulty is inside [1, 8], and no
\* attempt is mined at a difficulty outside [1, 8].
C6_InjectedDifficultyClamped ==
    /\ adjustArg # << >> => difficulty \in 1 .. 8
    /\ pc = "searching" => blockHeader.difficulty \in 1 .. 8

\* C7: every successful result carries rewards total = 50, ubi = 33 and
\* miner = 16, so miner + ubi = 49 and not 50, whatever the difficulty and
\* the mining time.
C7_RewardSplit ==
    Found =>
      /\ result.rewards = [ total |-> 50, miner |-> 16, ubi |-> 33 ]
      /\ result.rewards.ubi = (50 * 2) \div 3
      /\ result.rewards.miner = 50 \div 3
      /\ result.rewards.miner + result.rewards.ubi = 49

\* a block mined at the top difficulty in more than 45 s
C7_Witness ==
    /\ Found
    /\ result.block.difficulty = 8
    /\ result.block.miningTime = 45001

\* C8: the miner share awarded for a mined block is the 17 UUBI and the pool
\* share the 33 UUBI that the mining documentation states and that
\* GET /api/mining/status advertises, and the two add up to the block reward.
C8_SharesAsAdvertised ==
    Found =>
      /\ result.rewards.miner = MiningStatus.minerShare
      /\ result.rewards.miner = DocumentedRewards.minerShare
      /\ result.rewards.ubi = MiningStatus.ubiShare
      /\ result.rewards.ubi = DocumentedRewards.ubiShare
      /\ result.rewards.total = MiningStatus.blockReward
      /\ result.rewards.miner + result.rewards.ubi = result.rewards.total

\* a successful attempt of the running loop that startMining has not handled
Pending == IF pc = "returned" /\ Found THEN 1 ELSE 0

\* C9: within one startMining call given the callback, onBlockFound has been
\* invoked once for every successful attempt handled so far, and its k-th
\* invocation carried blockNumber k.
C9_BlockNumbersSequential ==
    (inLoop /\ onBlockFound) =>
      foundLog = [ k \in 1 .. (successes - Pending) |-> k ]

\* one startMining call has reported its first and its second block
C9_Witness ==
    /\ inLoop
    /\ onBlockFound
    /\ successes = 2
    /\ foundLog = << 1, 2 >>

\* C10: in startMining every successful attempt is followed by exactly one
\* adjustDifficulty call, made with that block's miningTime before the next
\* attempt starts, and the next attempt's header takes the retargeted
\* difficulty.
C10_RetargetBeforeNextAttempt ==
    /\ [](inLoop => runAdjusts = successes - Pending)
    /\ [][ /\ (pc = "returned" /\ Found) =>
                /\ pc' = "loop"
                /\ adjustArg' = << result.block.miningTime >>
                /\ runAdjusts' = runAdjusts + 1
                /\ difficulty' = adjustDifficulty(result.block.difficulty,
                                                  result.block.miningTime)
           /\ pc = "loop" =>
                /\ pc' = "searching"
                /\ difficulty' = difficulty
                /\ blockHeader'.difficulty = difficulty
                /\ runAdjusts' = runAdjusts
       ]_vars

\* the loop's second attempt is searching at the difficulty its first block,
\* mined in under 24 s, was retargeted to
C10_Witness ==
    /\ inLoop
    /\ pc = "searching"
    /\ attempts = 2
    /\ successes = 1
    /\ runAdjusts = 1
    /\ blockHeader.difficulty = 5


\* C11: startMining stops at the first result that is not a success and at
\* the first exception: a rejected mineBlock leaves the loop at its await
\* with nothing started, reported or adjusted, and the step that handles a
\* failed result, a rejection or a throwing onBlockFound ends the call
\* without starting an attempt, without invoking onBlockFound again, and
\* without adjusting the difficulty; and only a running startMining call is
\* ever between attempts.
C11_LoopStopsAtFirstFailure ==
    /\ [](pc \in { "loop", "returned" } => inLoop)
    /\ [](inLoop => ~Exhausted \/ pc = "returned")
    /\ [](inLoop /\ WasThrown(result) => pc = "returned")
    /\ [][ (inLoop /\ pc = "searching" /\ WasThrown(result')) =>
             /\ pc' = "returned"
             /\ attempts' = attempts
             /\ difficulty' = difficulty
             /\ adjustArg' = adjustArg
             /\ runAdjusts' = runAdjusts
             /\ foundLog' = foundLog
       ]_vars
    /\ [][ ( inLoop /\ pc = "returned" /\
             (Exhausted \/ WasThrown(result) \/ WasThrown(result')) ) =>
             /\ pc' = "idle"
             /\ ~inLoop'
             /\ attempts' = attempts
             /\ blockHeader' = Null
             /\ difficulty' = difficulty
             /\ adjustArg' = adjustArg
             /\ runAdjusts' <= runAdjusts
             /\ Len(foundLog') <= Len(foundLog)
       ]_vars

\* a startMining call has ended on the exception of its onBlockFound, after
\* one attempt, with the difficulty as constructed
C11_Witness ==
    /\ result = Thrown("onBlockFound")
    /\ pc = "idle"
    /\ ~inLoop
    /\ attempts = 1
    /\ difficulty = InitialDifficulty

\* C12: a failure of the block reporting never halts mining: whenever a
\* startMining call holds a successful result, its next step reports it,
\* increments the block number, retargets the difficulty with that block's
\* miningTime and returns to the top of the loop for the next attempt.
C12_ReportFailureDoesNotHaltMining ==
    [][ (inLoop /\ pc = "returned" /\ Found) =>
          /\ inLoop'
          /\ pc' = "loop"
          /\ blockNumber' = blockNumber + 1
          /\ adjustArg' = << result.block.miningTime >>
          /\ difficulty' = adjustDifficulty(difficulty, result.block.miningTime)
      ]_vars

\* what the caller of a finished run gets: the fields of the result that
\* describe the search
Outcome(run) ==
    [ returned |-> run.status \in { "found", "exhausted" },
      success |-> run.status = "found",
      nonce |-> run.nonce, hash |-> run.hash, hashes |-> run.hashCount ]

\* C13: runs of mineBlock on the same header inputs and difficulty return
\* the same success flag, winning nonce, winning hash and hash count, whether
\* onProgress is absent, given, or given and failing.
C13_ProgressDoesNotAffectOutcome ==
    (cmpRuns # <<>> /\ Searching = {}) =>
      \A m \in ProgressModes :
        /\ Outcome(cmpRuns[m]).returned
        /\ Outcome(cmpRuns[m]) = Outcome(cmpRuns["none"])

\* C14: in an attempt given onProgress, a notification is emitted at the
\* iterations that bring the hash count to a multiple of the cadence N and at
\* no other; the j-th one carries hashes = j*N and nonce = j*N - 1, which is
\* the nonce just hashed, and when that iteration wins, the winning hash; and
\* once the attempt has its result, the notification last emitted and
\* their number stay as they are until the next call.
C14_ProgressCadence ==
    /\ [](pc = "searching" =>
            /\ notifications = (IF onProgress THEN hashCount \div progressInterval ELSE 0)
            /\ notifications = 0 <=> progress = Null
            /\ notifications > 0 =>
                 /\ progress.hashes = notifications * progressInterval
                 /\ progress.nonce = notifications * progressInterval - 1)
    /\ [][ /\ (pc = "searching" /\ hashCount' = hashCount + 1) =>
                IF onProgress /\ hashCount' % progressInterval = 0
                THEN /\ notifications' = notifications + 1
                     /\ progress'.hashes = notifications' * progressInterval
                     /\ progress'.nonce = nonce
                     /\ progress'.nonce = notifications' * progressInterval - 1
                ELSE notifications' = notifications /\ progress' = progress
           /\ (pc = "searching" /\ Found') =>
                IF onProgress /\ result'.block.hashes % progressInterval = 0
                THEN /\ notifications' = notifications + 1
                     /\ progress'.hashes = result'.block.hashes
                     /\ progress'.nonce = result'.block.header.nonce
                     /\ progress'.currentHash = result'.block.hash
                ELSE notifications' = notifications /\ progress' = progress
           /\ (pc = "searching" /\ Exhausted') =>
                notifications' = notifications /\ progress' = progress
           /\ (pc # "searching" /\ IsResult(result)) =>
                \/ notifications' = notifications /\ progress' = progress
                \/ notifications' = 0 /\ progress' = Null /\ result' = Null
      ]_vars

\* an attempt is searching after its second progress notification
C14_Witness ==
    /\ pc = "searching"
    /\ onProgress
    /\ notifications = 2
    /\ progress.hashes = 2 * progressInterval
    /\ progress.nonce = 2 * progressInterval - 1

\* C15: miningStats.totalHashes is the sum of the hash counts of all attempts
\* made on the miner (the counts their results report, and the count so far
\* of the attempt in progress), miningStats.totalBlocks is the number of
\* successful results, and no step lowers either counter.
C15_StatsAccumulate ==
    /\ [](miningStats.totalHashes =
            sumHashes + (IF pc = "searching" THEN hashCount ELSE 0))
    /\ [](miningStats.totalBlocks = foundTotal)
    /\ [][ /\ miningStats'.totalHashes >= miningStats.totalHashes
           /\ miningStats'.totalBlocks >= miningStats.totalBlocks
           /\ miningStats'.startTime = miningStats.startTime ]_vars

\* an exhausted attempt and a successful one have been made on the miner
C15_Witness ==
    /\ attempts = 2
    /\ Found
    /\ foundTotal = 1
    /\ miningStats.totalBlocks = 1
    /\ miningStats.totalHashes = maxNonce + result.block.hashes
    /\ result.block.hashes > 1

HeaderFrame == { "version", "previousHash", "merkleRoot", "timestamp",
                 "difficulty", "miner" }

\* headers h and g differ at most in their nonce
SameButNonce(h, g) ==
    /\ DOMAIN h = DOMAIN g
    /\ \A f \in HeaderFrame : h[f] = g[f]

\* C16: the header of an attempt is created with version 1, the all-zero
\* previous hash, the empty merkle root, the miner's difficulty, the caller's
\* address and nonce 0; every iteration of the attempt changes no field of it
\* but nonce, and the header of the returned block differs from the working
\* header in nonce at most.
C16_OnlyNonceChanges ==
    [][ /\ (pc # "searching" /\ pc' = "searching") =>
             /\ DOMAIN blockHeader' = HeaderFrame \cup { "nonce" }
             /\ blockHeader'.version = HeaderVersion
             /\ blockHeader'.previousHash = Repeat("0", HashLen)
             /\ blockHeader'.merkleRoot = EmptyDigest
             /\ blockHeader'.timestamp \in Timestamps
             /\ blockHeader'.difficulty = difficulty
             /\ blockHeader'.miner = minerAddress'
             /\ blockHeader'.nonce = 0
        /\ (pc = "searching" /\ pc' = "searching") =>
             /\ SameButNonce(blockHeader, blockHeader')
             /\ blockHeader'.nonce = nonce
        /\ (pc = "searching" /\ Found') =>
             /\ SameButNonce(blockHeader, result'.block.header)
             /\ result'.block.header.nonce = nonce
      ]_vars

\* the third iteration of an attempt has written nonce 2 into its header
C16_Witness ==
    /\ pc = "searching"
    /\ hashCount = 3
    /\ blockHeader.nonce = 2
    /\ blockHeader.timestamp \in Timestamps
    /\ blockHeader.miner = minerAddress

\* C17: with one or two startMining calls running on the miner, the
\* difficulty changes only in a step that calls adjustDifficulty, to the
\* value adjustDifficulty computes, and never while an attempt is searching;
\* so during an attempt the miner's difficulty is the one in the attempt's
\* header, and a winning hash qualifies at the header's difficulty.
C17_DifficultyStableDuringAttempt ==
    /\ [](pc = "searching" => blockHeader.difficulty = difficulty)
    /\ [][ difficulty' # difficulty =>
             /\ pc # "searching"
             /\ adjustArg' # << >>
             /\ difficulty' = adjustDifficulty(difficulty, adjustArg'[1]) ]_vars
    /\ [][ (pc = "searching" /\ Found') =>
             /\ result'.block.difficulty = blockHeader.difficulty
             /\ result'.block.header.difficulty = blockHeader.difficulty
             /\ isValidHash(result'.block.hash, blockHeader.difficulty) ]_vars

\* the second call's attempt is searching while the first call is suspended
\* with a block it has not yet retargeted for
C17_Witness ==
    /\ pc = "searching"
    /\ other # << >>
    /\ other[1].result.success
    /\ other[1].runAdjusts = 0
    /\ hashCount > 0

\* C18: once the client's stop() has been called while its miner's
\* startMining loop is running, the loop starts no further mining attempt.
C18_StopIsEffective ==
    [][ (inLoop /\ ~isMining) => attempts' = attempts ]_vars

\* C19: every call of calculateMerkleRoot with an empty list returns the
\* digest of 'empty', and every header generateBlockHeader returns has that
\* digest as its merkleRoot.
C19_EmptyMerkleRoot ==
    /\ (transactions = << >> /\ merkleRoot # << >>) =>
         /\ merkleRoot = Digest(EmptyText)
         /\ merkleRoot = EmptyDigest
    /\ builtHeader # Null => builtHeader.merkleRoot = Digest(EmptyText)

\* calculateMerkleRoot([]) has returned, after a header was built at
\* difficulty 8
C19_Witness ==
    /\ transactions = << >>
    /\ merkleRoot = EmptyDigest
    /\ builtHeader # Null
    /\ builtHeader.difficulty = 8
    /\ builtHeader.merkleRoot = merkleRoot

\* the digest of a transaction record
TxHash(tx) == Digest(JsonStringify(tx))

\* one level of the reference reduction: the k-th hash combines the
\* (2k-1)-th hash below with the 2k-th, or with itself when there is no 2k-th
RefLevel(hs) ==
    [ k \in 1 .. ((Len(hs) + 1) \div 2) |->
        Digest(hs[2 * k - 1] \o hs[IF 2 * k <= Len(hs) THEN 2 * k ELSE 2 * k - 1]) ]

RECURSIVE RefRoot(_)
RefRoot(hs) == IF Len(hs) = 1 THEN hs[1] ELSE RefRoot(RefLevel(hs))

\* C20: for a non-empty transaction list calculateMerkleRoot returns one
\* hash, the root of the reference reduction of the records' digests: the
\* digest of the record for one record, digest(Ha Hb) for two,
\* digest(digest(Ha Hb) digest(Hc Hc)) for three and
\* digest(digest(Ha Hb) digest(Hc Hd)) for four.
C20_MerkleReduction ==
    Len(transactions) > 0 =>
      LET n == Len(transactions)
          H(i) == TxHash(transactions[i])
      IN /\ merkleRoot = RefRoot([ i \in 1 .. n |-> H(i) ])
         /\ Len(merkleRoot) > 0
         /\ n = 1 => merkleRoot = H(1)
         /\ n = 2 => merkleRoot = Digest(H(1) \o H(2))
         /\ n = 3 => merkleRoot = Digest(Digest(H(1) \o H(2))
                                         \o Digest(H(3) \o H(3)))
         /\ n = 4 => merkleRoot = Digest(Digest(H(1) \o H(2))
                                         \o Digest(H(3) \o H(4)))

\* calculateMerkleRoot has returned for three different records
C20_Witness ==
    /\ transactions = << [ id |-> 1 ], [ id |-> 2 ], [ id |-> 3 ] >>
    /\ merkleRoot = Digest(Digest(TxHash([ id |-> 1 ]) \o TxHash([ id |-> 2 ]))
                           \o Digest(TxHash([ id |-> 3 ]) \o TxHash([ id |-> 3 ])))

\* C21: with a collision-free digest, no ordered transaction list other than
\* the one calculateMerkleRoot was called with has the root it returned.
C21_MerkleRootInjective ==
    merkleRoot # << >> =>
      \A txs \in TxLists(MaxTxs) :
        txs # transactions => calculateMerkleRoot(txs) # merkleRoot

BothSerialized == serOut # << >> /\ serOut[1] # << >> /\ serOut[2] # << >>

\* C22: two headers that differ in a field never serialize to the same
\* string, whatever miner identifier and previous hash the caller supplied.
C22_SerializationInjective ==
    (BothSerialized /\ serOut[1][1].header # serOut[2][1].header) =>
      serOut[1][1].serialized # serOut[2][1].serialized

\* the arguments a run was given for the five inputs of a header
GivenInputs(a) ==
    << a.previousHash, a.miner, a.timestamp, a.difficulty, a.nonce >>

\* C23: two independent runs given the same previous hash, miner, timestamp,
\* difficulty and nonce produce the same header serialization and so the
\* same digest, for every value of those inputs, timestamp 0 and the empty
\* previous hash included.
C23_HeaderDeterministic ==
    ( /\ BothSerialized
      /\ GivenInputs(serArgs[1]) = GivenInputs(serArgs[2])
      /\ serArgs[1].previousHash # << >>
      /\ serArgs[1].timestamp # << >> ) =>
      /\ serOut[1][1].serialized = serOut[2][1].serialized
      /\ Digest(serOut[1][1].serialized) = Digest(serOut[2][1].serialized)

\* C24: for an address registerIdentity never succeeded for, GET /api/identity
\* answers 200, success, isVerified = false and GET /api/ubi-status answers
\* 200, success, canClaim = false, whatever the mode of the server, the state
\* of the chain and the outcome of the contract call.
C24_UnregisteredWalletStatus ==
    /\ ( /\ response.route = "identity"
         /\ response.request.walletAddress \notin registered )
       => ( /\ response.status = 200
            /\ response.success
            /\ response.data.isVerified = FALSE )
    /\ ( /\ response.route = "ubi-status"
         /\ response.request.walletAddress \notin registered )
       => ( /\ response.status = 200
            /\ response.success
            /\ response.data.canClaim = FALSE )

\* a connected server answered the identity request of an unregistered
\* address from the contract, while another address is registered and a
\* second request for the identity of the same address is still in flight
C24_Witness ==
    /\ response.route = "identity"
    /\ contract = "connected"
    /\ response.request.walletAddress = "w1"
    /\ "w1" \notin registered
    /\ identities[ServerWallet].isVerified
    /\ response.data.isVerified = FALSE
    /\ \E q \in pending : /\ q.route = "identity"
                           /\ q.request.walletAddress = "w1"

\* C25: POST /api/claim-ubi without a wallet address or without a signature
\* is answered 400 with success = false and an error containing 'required';
\* the step that answers it calls no method of ubiBlockchain, leaves no
\* request of its own waiting for the contract and leaves the chain as it
\* was.
C25_ClaimNeedsWalletAndSignature ==
    [][ ( /\ response' # response
          /\ response'.route = "claim-ubi"
          /\ \/ NoWallet(response'.request.walletAddress)
             \/ NoSignature(response'.request.signature) )
        => ( /\ response'.status = 400
             /\ response'.success = FALSE
             /\ Contains(response'.error, "required")
             /\ calls' = << >>
             /\ pending' = pending
             /\ UNCHANGED chainVars ) ]_vars

\* a request with a wallet that could claim but no signature was rejected
\* while two requests with the same fields were waiting for the contract
C25_Witness ==
    /\ response.route = "claim-ubi"
    /\ response.status = 400
    /\ response.request.signature = << >>
    /\ response.request.walletAddress = << ServerWallet >>
    /\ contract = "connected"
    /\ canUserClaimUUBI(identities, lastUUBIClaim, chainTime, ServerWallet)
    /\ calls = << >>
    /\ \E q1 \in pending, q2 \in pending : /\ q1.id # q2.id
                                            /\ q1.request = q2.request
                                            /\ q1.awaits = q2.awaits

\* C26: mineBlock hashes the header at the nonces 0, 1, 2, ... in this order
\* without skipping one, so a successful search ends at the smallest nonce
\* whose digest meets the difficulty, after winning nonce + 1 hashes.
C26_SmallestNonceWins ==
    search # Null =>
      /\ search.tried = [ i \in 1 .. Len(search.tried) |-> i - 1 ]
      /\ search.run.status = "found" =>
           /\ isValidHash(search.hashOf[search.run.nonce], search.difficulty)
           /\ \A n \in 0 .. search.run.nonce - 1 :
                ~ isValidHash(search.hashOf[n], search.difficulty)
           /\ search.run.hashCount = search.run.nonce + 1
           /\ Len(search.tried) = search.run.nonce + 1

\* a search won at a nonce above 0 although a later nonce qualifies as well
C26_Witness ==
    /\ search # Null
    /\ search.run.status = "found"
    /\ search.run.nonce = 2
    /\ isValidHash(search.hashOf[3], search.difficulty)

\* C27: a POST /api/mining/real-block request answered 400 or 500 leaves user
\* balances, ubiPool, totalMined and miningHistory as they were, also when
\* the block has no header.
C27_RejectedBlockLeavesLedger ==
    [][ ( response'.route = "real-block" /\ response'.status # 200 )
        => UNCHANGED ledgerVars ]_vars

\* the sum of all user balances
SumBalances(balances) == balances["u1"] + balances["u2"]

Conserved(total, pool, balances) == total = pool + SumBalances(balances)

\* C28: every accepted POST /api/mining/complete request and every accepted
\* POST /api/mining/real-block request that carries the rewards of a
\* RealUBIMiner result keeps totalMined = ubiPool + the sum of the balances.
C28_LedgerConservation ==
    [][ ( /\ Conserved(totalMined, ubiPool, userBalances)
          /\ response'.status = 200
          /\ \/ response'.route = "complete"
             \/ /\ response'.route = "real-block"
                /\ response'.request.rewards = << MinerRewards >> )
        => Conserved(totalMined', ubiPool', userBalances') ]_vars

\* the user a request names
Requester(r) == r.request.userId[1]

\* C29: a start request of a user with an active session is answered 400 and
\* leaves the sessions and the ledger alone; a complete request of a user
\* without a session is answered 400 and leaves the ledger and the sessions
\* alone; an accepted complete request credits the user once and consumes
\* the user's session; and no step replaces an active session by another.
C29_OneSessionCreditedOnce ==
    [][ /\ ( /\ response'.route = "start"
             /\ ~ NoUser(response'.request.userId)
             /\ activeMiners[Requester(response')] # << >> )
           => ( /\ response'.status = 400
                /\ UNCHANGED << activeMiners, ledgerVars >> )
        /\ ( /\ response'.route = "complete"
             /\ ~ NoUser(response'.request.userId)
             /\ activeMiners[Requester(response')] = << >> )
           => ( /\ response'.status = 400
                /\ UNCHANGED << activeMiners, ledgerVars >> )
        /\ ( response'.route = "complete" /\ response'.status = 200 )
           => ( /\ activeMiners[Requester(response')] # << >>
                /\ activeMiners'[Requester(response')] = << >>
                /\ HistoryLength(miningHistory') =
                     Min(HistoryLength(miningHistory) + 1, HistoryLimit)
                /\ miningHistory'.recent[Len(miningHistory'.recent)].userId =
                     Requester(response') )
        /\ \A u \in Users :
             ( activeMiners[u] # << >> /\ activeMiners'[u] # << >> )
             => activeMiners'[u] = activeMiners[u] ]_vars

\* a user's session was credited and is gone, the user's next complete
\* request was refused, while the other user's session is still active
C29_Witness ==
    /\ response.route = "complete"
    /\ response.status = 400
    /\ response.request.userId = << "u1" >>
    /\ activeMiners["u1"] = << >>
    /\ activeMiners["u2"] # << >>
    /\ \E i \in 1 .. Len(miningHistory.recent) :
         /\ miningHistory.recent[i].userId = "u1"
         /\ ~ miningHistory.recent[i].isRealMining

\* C30: while the loop of startMining keeps mining, the events waiting for
\* the event loop are processed all the same: the report of every block
\* handed to MiningClient.onBlockFound completes and a SIGINT that was
\* delivered is handled, unless the process has ended.
C30_LoopYieldsToEventLoop ==
    /\ \A b \in FollowedBlocks :
         (runtime.reports[b] = "pending")
           ~> (runtime.reports[b] = "completed" \/ runtime.pc = "exited")
    /\ (runtime.later > 0) ~> (runtime.later = 0 \/ runtime.pc = "exited")
    /\ (runtime.sigint = "pending")
         ~> (runtime.sigint = "handled" \/ runtime.pc = "exited")

====
